---- MODULE Spec2Model ----
(***************************************************************************)
(* Playback engine of implayer (src/src/player.rs, fn run) together with   *)
(* the producers of its control channel (src/src/app.rs, src/src/actions.rs)*)
(*                                                                         *)
(* The engine thread is modelled at the granularity of its blocking or     *)
(* shared operations: action intake and application (lines 84-170), packet *)
(* read (174-182), decode with sink open and Position update (184-193) and *)
(* the blocking sink write (195-197).                                      *)
(***************************************************************************)
EXTENDS Integers, Sequences, FiniteSets, TLC

\* ------------------------------------------------------------------ bounds
\* number of actions the producers send in one run
MaxSends == 3
\* number of packets of every track
TrackLen == 3
\* duration of one packet, in ticks
PacketTicks == 255
\* ticks per millisecond: the sub-millisecond resolution kept of Time.frac
TicksPerMs == 10

\* largest whole second of a position converted (positions below 10 000 000 ms)
MaxSecond == 9999
\* largest native time stamp converted, in ticks
MaxTs == 600
\* songs in the playlist of the caller runs
PlaylistLen == 3
\* highest song number handed out when songs are added
MaxSongId == 3
\* actions the caller sends while its playlists are edited
MaxEditSends == 2
\* downloads started
MaxDownloads == 2

\* ------------------------------------------------------- program constants
\* 0.93_f32.powi(4), in units of 1/10000
InitVolume == 7480

Tracks == {1, 2}
SeekTargets == {50, 200}
\* the volume control, in units of 1/100: slider_config("", 0.4, 1.2)
SliderMin == 40
SliderMax == 120
\* State.volume as initialised
InitSlider == 93

SliderValues == {SliderMin, SliderMax}

\* mutant: the curve alone, without the hard zero at the minimum
VolumeMultiplier_curve_only(v) == (v * v * v * v) \div 10000

\* the multiplier the caller sends for control value v: powi(4), in units of
\* 1/10000, and 0.0 at the minimum
VolumeMultiplier(v) ==
    IF v = SliderMin THEN 0 ELSE (v * v * v * v) \div 10000

Volumes == {VolumeMultiplier(v) : v \in SliderValues}

\* ------------------------------------------------------------ time (pure)
\* Time { seconds, frac }: frac is kept in ticks out of 1000 * TicksPerMs
TicksPerSecond == 1000 * TicksPerMs

\* mantissa bits of an f64
MantissaBits == 53

\* floor(log2(n)) for n >= 1
RECURSIVE Log2(_)
Log2(n) == IF n < 2 THEN 0 ELSE 1 + Log2(n \div 2)

\* binary long division of r by 1000.0, 0 < r < 1000, down to `bits`
\* significant quotient bits: `got` of them are out, the last one is `lsb`,
\* `exp` binary places are produced and `rem` is what is left over
RECURSIVE DivBits(_, _, _, _, _)
DivBits(rem, got, lsb, exp, bits) ==
    IF got = bits
      THEN [rem |-> rem, lsb |-> lsb, exp |-> exp]
      ELSE LET b == IF 2 * rem >= 1000 THEN 1 ELSE 0
           IN  DivBits(2 * rem - 1000 * b,
                       IF got > 0 \/ b = 1 THEN got + 1 ELSE 0,
                       b, exp + 1, bits)

\* r as f64 / 1000.0: the float nearest to r / 1000 (ties to even) with
\* `bits` mantissa bits, given by how far 1000 times it lies from r:
\* float * 1000 = r + err / 2^exp
DivF(r, bits) ==
    IF r = 0
      THEN [err |-> 0, exp |-> 0]
      ELSE LET q == DivBits(r, 0, 0, 0, bits)
               up == 2 * q.rem > 1000 \/ (2 * q.rem = 1000 /\ q.lsb = 1)
           IN  [err |-> IF up THEN 1000 - q.rem ELSE 0 - q.rem, exp |-> q.exp]

\* (x * 1000.0) as u64 for the float x with x * 1000 = n + err / 2^exp, n a
\* whole number: the product is rounded to the nearest f64, then truncated.
\* Below n the floats are 2^(k-52) apart (2^(k-53) when n = 2^k), k = Log2(n)
MulTrunc(n, err, exp) ==
    IF err >= 0 \/ n = 0
      THEN n
      ELSE LET k == Log2(n)
               t == exp + k - MantissaBits - (IF n = 2^k THEN 1 ELSE 0)
           IN  IF t < 0 \/ 0 - err > 2^t THEN n - 1 ELSE n

\* Time { seconds, frac }: frac is the decimal value in ticks, together with
\* the float's deviation from it (err, exp as in DivF)
time_to_ms(time) ==
    time.seconds * 1000 +
        (IF (time.frac * 1000) % TicksPerSecond = 0
           THEN MulTrunc((time.frac * 1000) \div TicksPerSecond, time.err, time.exp)
           ELSE (time.frac * 1000) \div TicksPerSecond)

\* mutant: the remainder is divided as an integer before the cast
ms_to_time_int_div(ms) ==
    [seconds |-> ms \div 1000, frac |-> 0, err |-> 0, exp |-> 0]

\* mutant: the fraction is computed in f32 and widened
ms_to_time_f32(ms) ==
    LET d == DivF(ms % 1000, 24)
    IN  [seconds |-> ms \div 1000,
         frac |-> ((ms % 1000) * TicksPerSecond) \div 1000,
         err |-> d.err,
         exp |-> d.exp]

ms_to_time(ms) ==
    LET d == DivF(ms % 1000, MantissaBits)
    IN  [seconds |-> ms \div 1000,
         frac |-> ((ms % 1000) * TicksPerSecond) \div 1000,
         err |-> d.err,
         exp |-> d.exp]

\* TimeBase::calc_time of a packet timestamp given in ticks
calc_time(ts) ==
    [seconds |-> ts \div TicksPerSecond, frac |-> ts % TicksPerSecond,
     err |-> 0, exp |-> 0]

\* line 155: the Time the Seek arm hands to the reader for each seek target
SeekTime == [ms \in SeekTargets |-> ms_to_time(ms)]

\* timestamp of the packet at a reader cursor
PacketTs(i) == i * PacketTicks

\* the packet an accurate seek to `time` lands on: the one whose span holds it
SeekIndex(time) == (time.seconds * TicksPerSecond + time.frac) \div PacketTicks

\* the reader accepts a seek target inside the track only
SeekInRange(time) == SeekIndex(time) < TrackLen

\* one packet duration in whole milliseconds, rounded up
PacketMs == (PacketTicks + TicksPerMs - 1) \div TicksPerMs

\* ---------------------------------------------------------------- actions
Play(path) == [type |-> "Play", arg |-> path]
Pause == [type |-> "Pause", arg |-> 0]
Resume == [type |-> "Resume", arg |-> 0]
Stop == [type |-> "Stop", arg |-> 0]
Seek(ms) == [type |-> "Seek", arg |-> ms]
SetVolume(v) == [type |-> "SetVolume", arg |-> v]

PlayerAction ==
    {Play(p) : p \in Tracks} \cup {Pause, Resume, Stop}
        \cup {Seek(ms) : ms \in SeekTargets} \cup {SetVolume(v) : v \in Volumes}

\* ------------------------------------------------------------------ state
VARIABLES
    state,        \* Option<PlayerState>: <<>> or <<session>>
    is_playing,   \* the Playing flag
    volume,       \* the multiplier handed to the sink
    pc,           \* where the engine thread is
    packet,       \* index of the packet read and not yet written, or -1
    position,     \* Arc<Mutex<u64>>: Shared Position, ms
    action_rx,    \* control channel, oldest first
    song_ended,   \* completion notifications sent
    ui_seek,      \* seek target the UI has sent and not yet stored, or -1
    sent,         \* actions sent so far
    ev,           \* the step taken last
    paused,       \* the session was paused and not resumed since
    pendingSeek,  \* target of the Seek applied since the last decode, or -1
    nPlays,       \* Play actions applied so far
    sincePlay,    \* a Play was applied and no Pause, Seek, Stop or teardown since
    dropped,      \* the caller's State is dropped: action_tx and song_ended_rx gone
    conv,         \* a time conversion under way: its input, Time and result
    ui,           \* the caller's State: songs, what it records as playing
    lock          \* who holds the Position mutex: "free", "engine", "read", "store"

vars ==
    <<state, is_playing, volume, pc, packet, position, action_rx, song_ended,
      ui_seek, sent, ev, paused, pendingSeek, nPlays, sincePlay, dropped, conv,
      ui, lock>>

None == <<>>
Some(s) == <<s>>
is_some(o) == Len(o) = 1
is_none(o) == Len(o) = 0
unwrap(o) == o[1]

\* mutant: the sink is opened when the session is created
PlayerState_eager(path) == [path |-> path, cursor |-> 0, audio_output |-> TRUE]

PlayerState(path) == [path |-> path, cursor |-> 0, audio_output |-> FALSE]

\* the engine's state of section 4.2
SubState ==
    IF Len(state) = 0 THEN "Idle" ELSE IF is_playing THEN "Playing" ELSE "Paused"

\* a step, with the sub-state it was taken in
Event(kind, arg) == [kind |-> kind, arg |-> arg, from |-> SubState]

Running == pc \in {"intake", "read", "decode", "store", "write"}

\* no conversion under way
NoConv ==
    [ms |-> -1, time |-> [seconds |-> 0, frac |-> 0, err |-> 0, exp |-> 0],
     out |-> -1, step |-> "idle"]

\* the engine and its caller as initialize() leaves them
InitRun ==
    /\ state = None
    /\ is_playing = FALSE
    /\ volume = InitVolume
    /\ pc = "intake"
    /\ packet = -1
    /\ position = 0
    /\ action_rx = <<>>
    /\ song_ended = 0
    /\ ui_seek = -1
    /\ sent = 0
    /\ ev = [kind |-> "init", arg |-> 0, from |-> "Idle"]
    /\ paused = FALSE
    /\ pendingSeek = -1
    /\ nPlays = 0
    /\ sincePlay = FALSE
    /\ dropped = FALSE

\* the caller with no playlist loaded
NoUi ==
    [songs |-> <<>>, playing_playlist_index |-> None, playing_song_index |-> None,
     is_playing |-> FALSE, received |-> 0]

Init == InitRun /\ conv = NoConv /\ ui = NoUi /\ lock = "free"

\* ------------------------------------------------------------- producers
\* any caller operation that sends Play, Pause, Resume or Stop
Send(a) ==
    /\ Running
    /\ ui_seek = -1
    /\ ~dropped
    /\ sent < MaxSends
    /\ a.type \notin {"Seek", "SetVolume"}
    /\ action_rx' = Append(action_rx, a)
    /\ sent' = sent + 1
    /\ ev' = Event("send", 0)
    /\ UNCHANGED <<state, is_playing, volume, pc, packet, position, song_ended,
                   ui_seek, paused, pendingSeek, nPlays, sincePlay, dropped, conv, ui, lock>>

\* the volume slider moved to v: sends SetVolume of the mapped value
SendSetVolume(v) ==
    /\ Running
    /\ ui_seek = -1
    /\ ~dropped
    /\ sent < MaxSends
    /\ action_rx' = Append(action_rx, SetVolume(VolumeMultiplier(v)))
    /\ sent' = sent + 1
    /\ ev' = Event("send", v)
    /\ UNCHANGED <<state, is_playing, volume, pc, packet, position, song_ended,
                   ui_seek, paused, pendingSeek, nPlays, sincePlay, dropped, conv, ui, lock>>

\* the song slider: sends Seek(new_position) ...
SendSeek(ms) ==
    /\ Running
    /\ ui_seek = -1
    /\ ~dropped
    /\ sent < MaxSends
    /\ action_rx' = Append(action_rx, Seek(ms))
    /\ sent' = sent + 1
    /\ ui_seek' = ms
    /\ ev' = Event("send", 0)
    /\ UNCHANGED <<state, is_playing, volume, pc, packet, position, song_ended,
                   paused, pendingSeek, nPlays, sincePlay, dropped, conv, ui, lock>>

\* ... and then stores new_position into Shared Position
StorePosition ==
    /\ ui_seek # -1
    /\ position' = ui_seek
    /\ ui_seek' = -1
    /\ ev' = Event("store", 0)
    /\ UNCHANGED <<state, is_playing, volume, pc, packet, action_rx, song_ended,
                   sent, paused, sincePlay, pendingSeek, nPlays, dropped, conv, ui, lock>>

\* the caller's State goes away: action_tx and song_ended_rx are fields of
\* the same struct, so the last sender and the completion receiver go together
DropState ==
    /\ Running
    /\ ui_seek = -1
    /\ ~dropped
    /\ dropped' = TRUE
    /\ ev' = Event("drop", 0)
    /\ UNCHANGED <<state, is_playing, volume, pc, packet, position, action_rx,
                   song_ended, ui_seek, sent, paused, pendingSeek, nPlays,
                   sincePlay, conv, ui, lock>>

\* mutant: the receive takes the newest action
Recv_last(a) ==
    /\ pc = "intake"
    /\ action_rx # <<>>
    /\ a = action_rx[Len(action_rx)]
    /\ action_rx' = SubSeq(action_rx, 1, Len(action_rx) - 1)

\* mutant: an action is also taken while the sink write is still in flight
Recv_preempts(a) ==
    /\ pc \in {"intake", "write"}
    /\ action_rx # <<>>
    /\ a = Head(action_rx)
    /\ action_rx' = Tail(action_rx)

\* a send after the engine thread has panicked: the receiver went with the
\* thread, send returns Err and the caller's unwrap panics the main thread,
\* which ends the process and State with it
SendFails ==
    /\ pc = "panicked"
    /\ ui_seek = -1
    /\ ~dropped
    /\ dropped' = TRUE
    /\ ev' = Event("sendPanic", 0)
    /\ UNCHANGED <<state, is_playing, volume, pc, packet, position, action_rx,
                   song_ended, ui_seek, sent, paused, pendingSeek, nPlays,
                   sincePlay, conv, ui, lock>>

\* ---------------------------------------------------------------- engine
\* lines 84-94: the receive; blocking when not playing, so no step is taken
\* on an empty channel then
Recv(a) ==
    /\ pc = "intake"
    /\ action_rx # <<>>
    /\ a = Head(action_rx)
    /\ action_rx' = Tail(action_rx)

\* mutant: while actions are pending the loop goes back for the next one
AfterApply_drains(s, playing) ==
    IF is_some(s) /\ playing /\ Len(action_rx) <= 1 THEN "read" ELSE "intake"

\* mutant: the loop goes on to decode whenever there is a session
AfterApply_unguarded(s, playing) == IF is_some(s) THEN "read" ELSE "intake"

\* lines 168-170: decode only with a session that is playing
AfterApply(s, playing) == IF is_some(s) /\ playing THEN "read" ELSE "intake"

\* mutant: Play adds a session next to the one there is
ApplyPlay_keeps_old(path, opened) ==
    /\ Recv(Play(path))
    /\ IF opened
         THEN /\ state' = <<PlayerState(path)>> \o state
              /\ is_playing' = TRUE
              /\ pc' = AfterApply(state', is_playing')
              /\ paused' = FALSE
              /\ sincePlay' = TRUE
              /\ pendingSeek' = -1
              /\ nPlays' = nPlays + 1
              /\ ev' = Event("Play", path)
         ELSE /\ pc' = "panicked"
              /\ ev' = Event("PlayPanic", path)
              /\ UNCHANGED <<state, is_playing, paused, sincePlay, pendingSeek, nPlays>>
    /\ UNCHANGED <<volume, packet, position, song_ended, ui_seek, sent, dropped, conv, ui, lock>>

\* mutant: a file that cannot be opened leaves the engine Idle and running
ApplyPlay_stays_idle(path, opened) ==
    /\ Recv(Play(path))
    /\ IF opened
         THEN /\ state' = Some(PlayerState(path))
              /\ is_playing' = TRUE
              /\ pc' = AfterApply(state', is_playing')
              /\ paused' = FALSE
              /\ sincePlay' = TRUE
              /\ pendingSeek' = -1
              /\ nPlays' = nPlays + 1
              /\ ev' = Event("Play", path)
         ELSE /\ state' = None
              /\ is_playing' = FALSE
              /\ pc' = "intake"
              /\ paused' = FALSE
              /\ sincePlay' = FALSE
              /\ pendingSeek' = -1
              /\ ev' = Event("PlayPanic", path)
              /\ UNCHANGED nPlays
    /\ UNCHANGED <<volume, packet, position, song_ended, ui_seek, sent, dropped, conv, ui, lock>>

\* mutant: a new session starts with Position back at 0
ApplyPlay_resets_position(path, opened) ==
    /\ Recv(Play(path))
    /\ IF opened
         THEN /\ state' = Some(PlayerState(path))
              /\ is_playing' = TRUE
              /\ position' = 0
              /\ pc' = AfterApply(state', is_playing')
              /\ paused' = FALSE
              /\ sincePlay' = TRUE
              /\ pendingSeek' = -1
              /\ nPlays' = nPlays + 1
              /\ ev' = Event("Play", path)
         ELSE /\ pc' = "panicked"
              /\ ev' = Event("PlayPanic", path)
              /\ UNCHANGED <<state, is_playing, position, paused, sincePlay, pendingSeek,
                             nPlays>>
    /\ UNCHANGED <<volume, packet, song_ended, ui_seek, sent, dropped, conv, ui, lock>>

ApplyPlay(path, opened) ==
    /\ Recv(Play(path))
    /\ IF opened
         THEN /\ state' = Some(PlayerState(path))
              /\ is_playing' = TRUE
              /\ pc' = AfterApply(state', is_playing')
              /\ paused' = FALSE
              /\ sincePlay' = TRUE
              /\ pendingSeek' = -1
              /\ nPlays' = nPlays + 1
              /\ ev' = Event("Play", path)
         ELSE /\ pc' = "panicked"
              /\ ev' = Event("PlayPanic", path)
              /\ UNCHANGED <<state, is_playing, paused, sincePlay, pendingSeek, nPlays>>
    /\ UNCHANGED <<volume, packet, position, song_ended, ui_seek, sent, dropped, conv, ui, lock>>

\* mutant: pausing releases the sink
ApplyPause_closes_sink ==
    /\ Recv(Pause)
    /\ is_playing' = IF is_some(state) THEN FALSE ELSE is_playing
    /\ paused' = IF is_some(state) THEN TRUE ELSE paused
    /\ sincePlay' = FALSE
    /\ state' = IF is_some(state)
                  THEN Some([unwrap(state) EXCEPT !.audio_output = FALSE])
                  ELSE state
    /\ pc' = AfterApply(state, is_playing')
    /\ ev' = Event("Pause", 0)
    /\ UNCHANGED <<volume, packet, position, song_ended, ui_seek, sent,
                   pendingSeek, nPlays, dropped, conv, ui, lock>>

\* lines 132-136
ApplyPause ==
    /\ Recv(Pause)
    /\ is_playing' = IF is_some(state) THEN FALSE ELSE is_playing
    /\ paused' = IF is_some(state) THEN TRUE ELSE paused
    /\ sincePlay' = FALSE
    /\ pc' = AfterApply(state, is_playing')
    /\ ev' = Event("Pause", 0)
    /\ UNCHANGED <<state, volume, packet, position, song_ended, ui_seek, sent,
                   pendingSeek, nPlays, dropped, conv, ui, lock>>

\* mutant: Resume without the state.is_some() test
ApplyResume_unchecked ==
    /\ Recv(Resume)
    /\ is_playing' = TRUE
    /\ paused' = IF is_some(state) THEN FALSE ELSE paused
    /\ UNCHANGED sincePlay
    /\ pc' = AfterApply(state, is_playing')
    /\ ev' = Event("Resume", 0)
    /\ UNCHANGED <<state, volume, packet, position, song_ended, ui_seek, sent,
                   pendingSeek, nPlays, dropped, conv, ui, lock>>

\* mutant: Resume rewinds the reader to the start of the track
ApplyResume_rewinds ==
    /\ Recv(Resume)
    /\ is_playing' = IF is_some(state) THEN TRUE ELSE is_playing
    /\ paused' = IF is_some(state) THEN FALSE ELSE paused
    /\ state' = IF is_some(state)
                  THEN Some([unwrap(state) EXCEPT !.cursor = 0])
                  ELSE state
    /\ pc' = AfterApply(state, is_playing')
    /\ ev' = Event("Resume", 0)
    /\ UNCHANGED <<volume, packet, position, song_ended, ui_seek, sent,
                   pendingSeek, nPlays, sincePlay, dropped, conv, ui, lock>>

\* lines 137-141
ApplyResume ==
    /\ Recv(Resume)
    /\ is_playing' = IF is_some(state) THEN TRUE ELSE is_playing
    /\ paused' = IF is_some(state) THEN FALSE ELSE paused
    /\ UNCHANGED sincePlay
    /\ pc' = AfterApply(state, is_playing')
    /\ ev' = Event("Resume", 0)
    /\ UNCHANGED <<state, volume, packet, position, song_ended, ui_seek, sent,
                   pendingSeek, nPlays, dropped, conv, ui, lock>>

\* mutant: Stop reports the end of the song like a teardown
ApplyStop_notifies ==
    /\ Recv(Stop)
    /\ state' = None
    /\ is_playing' = FALSE
    /\ song_ended' = song_ended + 1
    /\ paused' = FALSE
    /\ sincePlay' = FALSE
    /\ pendingSeek' = -1
    /\ pc' = AfterApply(state', is_playing')
    /\ ev' = Event("Stop", 0)
    /\ UNCHANGED <<volume, packet, position, ui_seek, sent, nPlays, dropped, conv, ui, lock>>

\* lines 142-145
ApplyStop ==
    /\ Recv(Stop)
    /\ state' = None
    /\ is_playing' = FALSE
    /\ paused' = FALSE
    /\ sincePlay' = FALSE
    /\ pendingSeek' = -1
    /\ pc' = AfterApply(state', is_playing')
    /\ ev' = Event("Stop", 0)
    /\ UNCHANGED <<volume, packet, position, song_ended, ui_seek, sent, nPlays, dropped, conv, ui, lock>>

\* mutant: the reader is not repositioned
SeekTo_keeps_cursor(s, time) == s

\* mutant: seeking releases the sink, so the next decode opens another
SeekTo_resets_output(s, time) ==
    [s EXCEPT !.cursor = SeekIndex(time), !.audio_output = FALSE]

\* reader.seek(SeekMode::Accurate, SeekTo::Time { time, .. }) on a session
SeekTo(s, time) == [s EXCEPT !.cursor = SeekIndex(time)]

\* mutant: Seek without the state.is_some() test unwraps no session
ApplySeek_unchecked(ms, seeked) ==
    /\ Recv(Seek(ms))
    /\ IF is_some(state) /\ seeked
         THEN /\ SeekInRange(ms_to_time(ms))
              /\ state' = Some([unwrap(state) EXCEPT !.cursor = SeekIndex(ms_to_time(ms))])
              /\ pendingSeek' = ms
              /\ pc' = AfterApply(state', is_playing)
              /\ ev' = Event("Seek", ms)
         ELSE /\ is_none(state) => seeked
              /\ pc' = "panicked"
              /\ ev' = Event("SeekPanic", ms)
              /\ UNCHANGED <<state, pendingSeek>>
    /\ sincePlay' = IF seeked THEN FALSE ELSE sincePlay
    /\ UNCHANGED <<is_playing, volume, packet, position, song_ended, ui_seek,
                   sent, paused, nPlays, dropped, conv, ui, lock>>

\* mutant: the Seek arm publishes its target as the new Position
ApplySeek_sets_position(ms, seeked) ==
    /\ Recv(Seek(ms))
    /\ IF is_none(state)
         THEN /\ seeked
              /\ pc' = AfterApply(state, is_playing)
              /\ ev' = Event("Seek", ms)
              /\ UNCHANGED <<state, pendingSeek, position>>
         ELSE IF seeked
         THEN /\ SeekInRange(ms_to_time(ms))
              /\ state' = Some(SeekTo(unwrap(state), ms_to_time(ms)))
              /\ position' = ms
              /\ pendingSeek' = ms
              /\ pc' = AfterApply(state', is_playing)
              /\ ev' = Event("Seek", ms)
         ELSE /\ pc' = "panicked"
              /\ ev' = Event("SeekPanic", ms)
              /\ UNCHANGED <<state, pendingSeek, position>>
    /\ sincePlay' = IF seeked THEN FALSE ELSE sincePlay
    /\ UNCHANGED <<is_playing, volume, packet, song_ended, ui_seek,
                   sent, paused, nPlays, dropped, conv, ui, lock>>

\* lines 146-161: `seeked` is the outcome of reader.seek, unwrapped
ApplySeek(ms, seeked) ==
    /\ Recv(Seek(ms))
    /\ IF is_none(state)
         THEN /\ seeked
              /\ pc' = AfterApply(state, is_playing)
              /\ ev' = Event("Seek", ms)
              /\ UNCHANGED <<state, pendingSeek>>
         ELSE IF seeked
         THEN LET time == SeekTime[ms]
              IN  /\ SeekInRange(time)
                  /\ state' = Some(SeekTo(unwrap(state), time))
                  /\ pendingSeek' = ms
                  /\ pc' = AfterApply(state', is_playing)
                  /\ ev' = Event("Seek", ms)
         ELSE /\ pc' = "panicked"
              /\ ev' = Event("SeekPanic", ms)
              /\ UNCHANGED <<state, pendingSeek>>
    /\ sincePlay' = IF seeked THEN FALSE ELSE sincePlay
    /\ UNCHANGED <<is_playing, volume, packet, position, song_ended, ui_seek,
                   sent, paused, nPlays, dropped, conv, ui, lock>>

\* lines 162-164
ApplySetVolume(v) ==
    /\ Recv(SetVolume(v))
    /\ volume' = v
    /\ pc' = AfterApply(state, is_playing)
    /\ ev' = Event("SetVolume", v)
    /\ UNCHANGED <<state, is_playing, packet, position, song_ended, ui_seek,
                   sent, paused, sincePlay, pendingSeek, nPlays, dropped, conv, ui, lock>>

\* lines 89-92: the blocking recv on a closed and drained channel
Return ==
    /\ pc = "intake"
    /\ ~is_playing
    /\ action_rx = <<>>
    /\ dropped
    /\ pc' = "done"
    /\ ev' = Event("return", 0)
    /\ UNCHANGED <<state, is_playing, volume, packet, position, action_rx,
                   song_ended, ui_seek, sent, paused, pendingSeek, nPlays,
                   sincePlay, dropped, conv, ui, lock>>

\* lines 85-88 and 165: try_recv on an empty (or closed) channel while playing
PollNone ==
    /\ pc = "intake"
    /\ is_playing
    /\ action_rx = <<>>
    /\ pc' = AfterApply(state, is_playing)
    /\ ev' = Event("poll", 0)
    /\ UNCHANGED <<state, is_playing, volume, packet, position, action_rx,
                   song_ended, ui_seek, sent, paused, sincePlay, pendingSeek, nPlays, dropped, conv, ui, lock>>

\* mutant: the notification is sent but the session is kept
Teardown_keeps_session ==
    /\ song_ended' = IF dropped THEN song_ended ELSE song_ended + 1
    /\ packet' = -1
    /\ pc' = IF dropped THEN "panicked" ELSE "intake"
    /\ UNCHANGED <<state, is_playing, paused, sincePlay, pendingSeek>>

\* lines 176-181 and 203-205: the session is dropped and song_ended_tx gets
\* (); the send is unwrapped, and fails once the receiver is dropped
Teardown ==
    /\ state' = None
    /\ is_playing' = FALSE
    /\ song_ended' = IF dropped THEN song_ended ELSE song_ended + 1
    /\ paused' = FALSE
    /\ sincePlay' = FALSE
    /\ pendingSeek' = -1
    /\ packet' = -1
    /\ pc' = IF dropped THEN "panicked" ELSE "intake"

\* the step a teardown is recorded as: its cause, or the panic of its send
Ended(kind) == IF dropped THEN "endedPanic" ELSE kind

\* reader.next_packet(): the packet at the cursor, which then advances
NextPacket(s) == [s EXCEPT !.cursor = s.cursor + 1]

\* mutant: a failed read also clears Shared Position
ReadPacket_resets(ok) ==
    /\ pc = "read"
    /\ IF ok
         THEN /\ unwrap(state).cursor < TrackLen
              /\ packet' = unwrap(state).cursor
              /\ state' = Some(NextPacket(unwrap(state)))
              /\ pc' = "decode"
              /\ ev' = Event("readOk", packet')
              /\ UNCHANGED <<is_playing, song_ended, paused, sincePlay, pendingSeek,
                             position>>
         ELSE /\ Teardown
              /\ position' = 0
              /\ ev' = Event(Ended("readErr"), 0)
    /\ UNCHANGED <<volume, action_rx, ui_seek, sent, nPlays, dropped, conv, ui, lock>>

\* mutant: the next packet is read while the previous buffer's write is pending
ReadPacket_ahead(ok) ==
    /\ pc \in {"read", "write"}
    /\ IF ok
         THEN /\ unwrap(state).cursor < TrackLen
              /\ packet' = unwrap(state).cursor
              /\ state' = Some(NextPacket(unwrap(state)))
              /\ pc' = "decode"
              /\ ev' = Event("readOk", packet')
              /\ UNCHANGED <<is_playing, song_ended, paused, sincePlay, pendingSeek>>
         ELSE /\ Teardown
              /\ ev' = Event(Ended("readErr"), 0)
    /\ UNCHANGED <<volume, position, action_rx, ui_seek, sent, nPlays, dropped, conv, ui, lock>>

\* lines 174-182: `ok` is the outcome of next_packet; past the last packet
\* it can only fail (end of stream)
ReadPacket(ok) ==
    /\ pc = "read"
    /\ IF ok
         THEN /\ unwrap(state).cursor < TrackLen
              /\ packet' = unwrap(state).cursor
              /\ state' = Some(NextPacket(unwrap(state)))
              /\ pc' = "decode"
              /\ ev' = Event("readOk", packet')
              /\ UNCHANGED <<is_playing, song_ended, paused, sincePlay, pendingSeek>>
         ELSE /\ Teardown
              /\ ev' = Event(Ended("readErr"), 0)
    /\ UNCHANGED <<volume, position, action_rx, ui_seek, sent, nPlays, dropped, conv, ui, lock>>

\* line 193: the Position a decoded packet publishes
PacketPosition(p) == time_to_ms(calc_time(PacketTs(p)))

\* mutant: the decoded buffer goes to the sink with Position left as it was
DecodeOk_keeps_position(opened) ==
    IF opened \/ unwrap(state).audio_output
      THEN /\ opened
           /\ state' = Some([unwrap(state) EXCEPT !.audio_output = TRUE])
           /\ pendingSeek' = -1
           /\ pc' = "write"
           /\ ev' = Event("decodeOk", pendingSeek)
           /\ UNCHANGED <<is_playing, position, song_ended, paused, sincePlay, packet>>
      ELSE /\ pc' = "panicked"
           /\ ev' = Event("openPanic", 0)
           /\ UNCHANGED <<state, is_playing, position, song_ended, paused, sincePlay,
                          pendingSeek, packet>>

\* lines 185-193: `opened` is the result of output::try_open, called (and
\* unwrapped) only when the sink is not open yet
DecodeOk(opened) ==
    IF opened \/ unwrap(state).audio_output
      THEN /\ opened
           /\ state' = Some([unwrap(state) EXCEPT !.audio_output = TRUE])
           /\ position' = PacketPosition(packet)
           /\ pendingSeek' = -1
           /\ pc' = "write"
           /\ ev' = Event("decodeOk", pendingSeek)
           /\ UNCHANGED <<is_playing, song_ended, paused, sincePlay, packet>>
      ELSE /\ pc' = "panicked"
           /\ ev' = Event("openPanic", 0)
           /\ UNCHANGED <<state, is_playing, position, song_ended, paused, sincePlay,
                          pendingSeek, packet>>

\* mutant: every decoder error takes the fatal arm
DecodeError_teardown ==
    /\ Teardown
    /\ ev' = Event("decodeErr", pendingSeek)
    /\ UNCHANGED position

\* mutant: the malformed frame is read again
DecodeError_retries ==
    /\ state' = Some([unwrap(state) EXCEPT !.cursor = packet])
    /\ packet' = -1
    /\ pendingSeek' = -1
    /\ pc' = "intake"
    /\ ev' = Event("decodeErr", pendingSeek)
    /\ UNCHANGED <<is_playing, position, song_ended, paused, sincePlay>>

\* lines 199-201: the frame is skipped
DecodeError ==
    /\ packet' = -1
    /\ pendingSeek' = -1
    /\ pc' = "intake"
    /\ ev' = Event("decodeErr", pendingSeek)
    /\ UNCHANGED <<state, is_playing, position, song_ended, paused, sincePlay>>

\* lines 202-206
DecodeFatal ==
    /\ Teardown
    /\ ev' = Event(Ended("decodeFatal"), 0)
    /\ UNCHANGED position

\* lines 184-207: `outcome` is the decoder's result
Decode(outcome, opened) ==
    /\ pc = "decode"
    /\ CASE outcome = "Ok" -> DecodeOk(opened)
         [] outcome = "DecodeError" -> opened /\ DecodeError
         [] outcome = "Fatal" -> opened /\ DecodeFatal
    /\ UNCHANGED <<volume, action_rx, ui_seek, sent, nPlays, dropped, conv, ui, lock>>

\* mutant: the write uses the multiplier the engine started with
Write_stale_volume(ok) ==
    /\ pc = "write"
    /\ packet' = -1
    /\ pc' = IF ok THEN "intake" ELSE "panicked"
    /\ ev' = Event(IF ok THEN "writeOk" ELSE "writePanic", InitVolume)
    /\ UNCHANGED <<state, is_playing, volume, position, action_rx, song_ended,
                   ui_seek, sent, paused, sincePlay, pendingSeek, nPlays, dropped, conv, ui, lock>>

\* mutant: a failed write tears the session down like the end of the track
Write_tears_down(ok) ==
    /\ pc = "write"
    /\ IF ok
         THEN /\ packet' = -1
              /\ pc' = "intake"
              /\ UNCHANGED <<state, is_playing, song_ended, paused, sincePlay,
                             pendingSeek>>
         ELSE Teardown
    /\ ev' = Event(IF ok THEN "writeOk" ELSE "writePanic", volume)
    /\ UNCHANGED <<volume, position, action_rx, ui_seek, sent, nPlays, dropped, conv, ui, lock>>

\* lines 195-197: the blocking write of the decoded buffer with the multiplier
Write(ok) ==
    /\ pc = "write"
    /\ packet' = -1
    /\ pc' = IF ok THEN "intake" ELSE "panicked"
    /\ ev' = Event(IF ok THEN "writeOk" ELSE "writePanic", volume)
    /\ UNCHANGED <<state, is_playing, volume, position, action_rx, song_ended,
                   ui_seek, sent, paused, sincePlay, pendingSeek, nPlays, dropped, conv, ui, lock>>

Outcomes == {"Ok", "DecodeError", "Fatal"}

Next ==
    \/ \E a \in PlayerAction : Send(a)
    \/ \E v \in SliderValues : SendSetVolume(v)
    \/ \E ms \in SeekTargets : SendSeek(ms)
    \/ StorePosition
    \/ DropState
    \/ SendFails
    \/ \E path \in Tracks, opened \in BOOLEAN : ApplyPlay(path, opened)
    \/ ApplyPause
    \/ ApplyResume
    \/ ApplyStop
    \/ \E ms \in SeekTargets, seeked \in BOOLEAN : ApplySeek(ms, seeked)
    \/ \E v \in Volumes : ApplySetVolume(v)
    \/ PollNone
    \/ Return
    \/ \E ok \in BOOLEAN : ReadPacket(ok)
    \/ \E outcome \in Outcomes, opened \in BOOLEAN : Decode(outcome, opened)
    \/ \E ok \in BOOLEAN : Write(ok)

Spec == Init /\ [][Next]_vars

\* ------------------------------------------------------------ conversions
\* the conversions on their own: ms_to_time of a position in ms followed by
\* time_to_ms, and time_to_ms of a native time stamp
InitTime ==
    /\ InitRun
    /\ ui = NoUi
    /\ lock = "free"
    /\ conv \in
         {[NoConv EXCEPT !.ms = s * 1000 + r, !.step = "ms"] :
              s \in {0, 1, MaxSecond}, r \in 0..999}
         \cup {[NoConv EXCEPT !.time = calc_time(ts), !.step = "time"] : ts \in 0..MaxTs}

ToTime ==
    /\ conv.step = "ms"
    /\ conv' = [conv EXCEPT !.time = ms_to_time(conv.ms), !.step = "time"]
    /\ UNCHANGED <<state, is_playing, volume, pc, packet, position, action_rx,
                   song_ended, ui_seek, sent, ev, paused, pendingSeek, nPlays,
                   sincePlay, dropped, ui, lock>>

ToMs ==
    /\ conv.step = "time"
    /\ conv' = [conv EXCEPT !.out = time_to_ms(conv.time), !.step = "out"]
    /\ UNCHANGED <<state, is_playing, volume, pc, packet, position, action_rx,
                   song_ended, ui_seek, sent, ev, paused, pendingSeek, nPlays,
                   sincePlay, dropped, ui, lock>>

NextTime == ToTime \/ ToMs

SpecTime == InitTime /\ [][NextTime]_vars

\* ----------------------------------------------------------------- caller
\* the caller's playback functions of app.rs, run against the engine. Songs
\* are numbered from 1 and a song's path is its index; ui.songs[i] is the
\* song's exists flag; ui.received counts the completion notifications taken
\* off song_ended_rx, so song_ended - ui.received of them are pending.

\* action_tx.send(a).unwrap() with the receiver alive
CallerSend(a) ==
    /\ Running
    /\ ~dropped
    /\ ui_seek = -1
    /\ sent < MaxSends
    /\ action_rx' = Append(action_rx, a)
    /\ sent' = sent + 1

\* the loop of next: the first song at index i or later that exists
RECURSIVE FirstExisting(_, _)
FirstExisting(songs, i) ==
    IF i > Len(songs) THEN None
    ELSE IF songs[i] THEN Some(i)
    ELSE FirstExisting(songs, i + 1)

\* the loop of prev: the last song at index i or earlier that exists
RECURSIVE LastExisting(_, _)
LastExisting(songs, i) ==
    IF i < 1 THEN None
    ELSE IF songs[i] THEN Some(i)
    ELSE LastExisting(songs, i - 1)

\* lines 1335-1344
stop(u) ==
    /\ CallerSend(Stop)
    /\ ui' = [u EXCEPT !.is_playing = FALSE, !.playing_playlist_index = None,
                       !.playing_song_index = None]

\* lines 1326-1333
pause(u) ==
    /\ CallerSend(Pause)
    /\ ui' = [u EXCEPT !.is_playing = FALSE]

\* mutant: resume does not look for a current song
resume_unchecked(u) ==
    /\ CallerSend(Resume)
    /\ ui' = [u EXCEPT !.is_playing = TRUE]

\* lines 1346-1356
resume(u) ==
    IF is_none(u.playing_song_index)
      THEN ui' = u /\ UNCHANGED <<action_rx, sent>>
      ELSE /\ CallerSend(Resume)
           /\ ui' = [u EXCEPT !.is_playing = TRUE]

\* mutant: play sends whatever the song's exists flag says
play_unchecked(u, song_index) ==
    /\ CallerSend(Play(song_index))
    /\ ui' = [u EXCEPT !.is_playing = TRUE, !.playing_playlist_index = Some(1),
                       !.playing_song_index = Some(song_index)]

\* lines 1305-1324
play(u, song_index) ==
    IF ~u.songs[song_index]
      THEN ui' = u /\ UNCHANGED <<action_rx, sent>>
      ELSE /\ CallerSend(Play(song_index))
           /\ ui' = [u EXCEPT !.is_playing = TRUE, !.playing_playlist_index = Some(1),
                              !.playing_song_index = Some(song_index)]

\* lines 1395-1429, `songs` being the exists flags and `paths` the paths of
\* the playing playlist's songs
next_in(u, songs, paths) ==
    IF is_none(u.playing_playlist_index) \/ is_none(u.playing_song_index)
      THEN ui' = u /\ UNCHANGED <<action_rx, sent>>
      ELSE LET next_song_index ==
                   FirstExisting(songs, unwrap(u.playing_song_index) + 1)
           IN  IF is_none(next_song_index)
                 THEN stop(u)
                 ELSE /\ CallerSend(Play(paths[unwrap(next_song_index)]))
                      /\ ui' = [u EXCEPT !.is_playing = TRUE,
                                         !.playing_song_index = next_song_index]

\* lines 1358-1393, `songs` being the exists flags and `paths` the paths of
\* the playing playlist's songs
prev_in(u, songs, paths) ==
    IF is_none(u.playing_playlist_index) \/ is_none(u.playing_song_index)
      THEN ui' = u /\ UNCHANGED <<action_rx, sent>>
      ELSE LET prev_song_index ==
                   LastExisting(songs, unwrap(u.playing_song_index) - 1)
           IN  IF is_none(prev_song_index)
                 THEN stop(u)
                 ELSE /\ CallerSend(Play(paths[unwrap(prev_song_index)]))
                      /\ ui' = [u EXCEPT !.is_playing = TRUE,
                                         !.playing_song_index = prev_song_index]

\* prev on the one playlist of the caller runs
prev(u) == prev_in(u, u.songs, [i \in 1..Len(u.songs) |-> i])

\* mutant: next takes the following song whether or not its file exists
next_no_exists_check(u) ==
    IF is_none(u.playing_playlist_index) \/ is_none(u.playing_song_index)
      THEN ui' = u /\ UNCHANGED <<action_rx, sent>>
      ELSE LET i == unwrap(u.playing_song_index) + 1
               next_song_index == IF i > Len(u.songs) THEN None ELSE Some(i)
           IN  IF is_none(next_song_index)
                 THEN stop(u)
                 ELSE /\ CallerSend(Play(unwrap(next_song_index)))
                      /\ ui' = [u EXCEPT !.is_playing = TRUE,
                                         !.playing_song_index = next_song_index]

\* next on the one playlist of the caller runs
next(u) == next_in(u, u.songs, [i \in 1..Len(u.songs) |-> i])

\* what a caller step leaves alone
CallerFrame ==
    UNCHANGED <<state, is_playing, volume, pc, packet, position, song_ended, ui_seek,
                paused, pendingSeek, nPlays, sincePlay, dropped, conv, lock>>

\* draw, lines 349-353: a pending completion notification is taken and next runs
SongEnded ==
    /\ song_ended > ui.received
    /\ next([ui EXCEPT !.received = ui.received + 1])
    /\ ev' = Event("songEnded", 0)
    /\ CallerFrame

\* lines 818-834: a song of the table is double-clicked; the code there is
\* the body of play, exists check included
PlaySong(song_index) ==
    /\ song_index \in 1..Len(ui.songs)
    /\ play(ui, song_index)
    /\ ev' = Event("playSong", song_index)
    /\ CallerFrame

\* lines 516-536: a playlist is double-clicked; its first existing song plays
PlayPlaylist ==
    /\ LET result == FirstExisting(ui.songs, 1)
       IN  IF ui.songs = <<>> \/ is_none(result)
             THEN UNCHANGED <<ui, action_rx, sent>>
             ELSE /\ CallerSend(Play(unwrap(result)))
                  /\ ui' = [ui EXCEPT !.is_playing = TRUE,
                                      !.playing_playlist_index = Some(1),
                                      !.playing_song_index = result]
    /\ ev' = Event("playPlaylist", 0)
    /\ CallerFrame

\* lines 372-378: the space key pauses or resumes
TogglePlayback ==
    /\ IF ui.is_playing THEN pause(ui) ELSE resume(ui)
    /\ ev' = Event("toggle", 0)
    /\ CallerFrame

\* line 380, 1086, 1250: next asked for by the user
NextSong ==
    /\ next(ui)
    /\ ev' = Event("nextSong", 0)
    /\ CallerFrame

\* lines 383, 1071, 1251: prev asked for by the user
PrevSong ==
    /\ prev(ui)
    /\ ev' = Event("prevSong", 0)
    /\ CallerFrame

\* line 1252: the media controls' Stop
StopPlayback ==
    /\ stop(ui)
    /\ ev' = Event("stopPlayback", 0)
    /\ CallerFrame

\* a playlist of PlaylistLen songs, each file present or not, nothing playing
InitCaller ==
    /\ InitRun
    /\ conv = NoConv
    /\ lock = "free"
    /\ ui \in {[NoUi EXCEPT !.songs = songs] : songs \in [1..PlaylistLen -> BOOLEAN]}

\* the caller and the engine, the engine's files and device in order
NextCaller ==
    \/ SongEnded
    \/ \E song_index \in 1..PlaylistLen : PlaySong(song_index)
    \/ PlayPlaylist
    \/ TogglePlayback
    \/ NextSong
    \/ PrevSong
    \/ StopPlayback
    \/ \E path \in 1..PlaylistLen : ApplyPlay(path, TRUE)
    \/ ApplyPause
    \/ ApplyResume
    \/ ApplyStop
    \/ PollNone
    \/ \E ok \in BOOLEAN : ReadPacket(ok)
    \/ Decode("Ok", TRUE)
    \/ Write(TRUE)

SpecCaller == InitCaller /\ [][NextCaller]_vars

\* ---------------------------------------------------------- position lock
\* the Position mutex with its acquisition made a step of its own: lock()
\* waits until the mutex is free, and the guard, a temporary of the statement
\* that stores or reads, is released when that statement ends

\* player.rs line 193, position.lock(): the packet is decoded and the sink is
\* open (lines 185-191 went through)
LockPosition ==
    /\ pc = "decode"
    /\ lock = "free"
    /\ lock' = "engine"
    /\ state' = Some([unwrap(state) EXCEPT !.audio_output = TRUE])
    /\ pc' = "store"
    /\ ev' = Event("lock", packet)
    /\ UNCHANGED <<is_playing, volume, packet, position, action_rx, song_ended, ui_seek,
                   sent, paused, pendingSeek, nPlays, sincePlay, dropped, conv, ui>>

\* mutant: the guard is bound to a name and lives to the end of the Ok arm
StoreUnlock_guard_bound ==
    /\ pc = "store"
    /\ lock = "engine"
    /\ position' = PacketPosition(packet)
    /\ pendingSeek' = -1
    /\ pc' = "write"
    /\ ev' = Event("decodeOk", pendingSeek)
    /\ UNCHANGED <<state, is_playing, volume, packet, action_rx, song_ended, ui_seek,
                   sent, paused, nPlays, sincePlay, dropped, conv, ui, lock>>

\* player.rs line 193, the store through the guard and the end of the statement
StoreUnlock ==
    /\ pc = "store"
    /\ lock = "engine"
    /\ position' = PacketPosition(packet)
    /\ lock' = "free"
    /\ pendingSeek' = -1
    /\ pc' = "write"
    /\ ev' = Event("decodeOk", pendingSeek)
    /\ UNCHANGED <<state, is_playing, volume, packet, action_rx, song_ended, ui_seek,
                   sent, paused, nPlays, sincePlay, dropped, conv, ui>>

\* app.rs lines 1094-1100 (op "read": the current time is shown when a song
\* is current) and line 1171 (op "store": right after the Seek was sent)
CallerLock(op) ==
    /\ lock = "free"
    /\ ~dropped
    /\ IF op = "store"
         THEN ui_seek # -1
         ELSE /\ ui_seek = -1
              /\ is_some(ui.playing_playlist_index)
              /\ is_some(ui.playing_song_index)
    /\ lock' = op
    /\ ev' = Event("lock", 0)
    /\ UNCHANGED <<state, is_playing, volume, pc, packet, position, action_rx, song_ended,
                   ui_seek, sent, paused, pendingSeek, nPlays, sincePlay, dropped, conv, ui>>

\* the caller's statement ends: a store has written new_position
CallerUnlock ==
    /\ lock \in {"read", "store"}
    /\ lock' = "free"
    /\ IF lock = "store"
         THEN position' = ui_seek /\ ui_seek' = -1
         ELSE UNCHANGED <<position, ui_seek>>
    /\ ev' = Event(IF lock = "store" THEN "store" ELSE "unlock", 0)
    /\ UNCHANGED <<state, is_playing, volume, pc, packet, action_rx, song_ended,
                   sent, paused, pendingSeek, nPlays, sincePlay, dropped, conv, ui>>

\* a playlist with every file present, nothing playing
InitLock ==
    /\ InitRun
    /\ conv = NoConv
    /\ lock = "free"
    /\ ui = [NoUi EXCEPT !.songs = [i \in 1..PlaylistLen |-> TRUE]]

\* the caller playing, seeking and reading the time; the engine's files and
\* device in order
NextLock ==
    \/ \E song_index \in 1..PlaylistLen : PlaySong(song_index)
    \/ \E ms \in SeekTargets : SendSeek(ms)
    \/ \E op \in {"read", "store"} : CallerLock(op)
    \/ CallerUnlock
    \/ \E path \in 1..PlaylistLen : ApplyPlay(path, TRUE)
    \/ \E ms \in SeekTargets, seeked \in BOOLEAN : ApplySeek(ms, seeked)
    \/ PollNone
    \/ \E ok \in BOOLEAN : ReadPacket(ok)
    \/ LockPosition
    \/ StoreUnlock
    \/ Write(TRUE)

SpecLock == InitLock /\ [][NextLock]_vars

\* -------------------------------------------------------------- playlists
\* the caller's playlists under editing. ui.playlists[p] is the sequence of
\* the songs of playlist p, a song being its path, a number; playlist 1 is
\* "All"; every file exists. Indices count from 1, so the index i here is the
\* usize i - 1 of the code, and an index of 0 or below stands for a usize that
\* wrapped below zero: 0 for usize::MAX, -1 for usize::MAX - 1, and so on. A
\* subtraction or addition that wraps panics the main thread in a build with
\* overflow checks (`checked`) and wraps in one without.
AllPlaylist == 1

UserPlaylist == 2

\* a > b on usize
UGt(a, b) == IF (a <= 0) = (b <= 0) THEN a > b ELSE a <= 0

\* Vec::remove and slice::swap
Remove(s, i) == SubSeq(s, 1, i - 1) \o SubSeq(s, i + 1, Len(s))

Swap(s, i, j) == [s EXCEPT ![i] = s[j], ![j] = s[i]]

SetMax(S) == CHOOSE x \in S : \A y \in S : y <= x

SetMin(S) == CHOOSE x \in S : \A y \in S : x <= y

HasCurrent(u) == is_some(u.playing_playlist_index) /\ is_some(u.playing_song_index)

\* the playing index is one of the playing playlist
ValidCurrent(u) ==
    unwrap(u.playing_song_index) \in 1..Len(u.playlists[unwrap(u.playing_playlist_index)])

\* lines 399-414: the selected indices, highest first; the playing index is
\* lowered whichever playlist it belongs to
RECURSIVE DeleteLoop(_, _, _, _)
DeleteLoop(sel, songs, psi, checked) ==
    IF sel = {}
      THEN [songs |-> songs, playing_song_index |-> psi, panicked |-> FALSE]
      ELSE LET i == SetMax(sel)
           IN  IF psi = Some(i) /\ i = 1 /\ checked
                 THEN [songs |-> songs, playing_song_index |-> psi, panicked |-> TRUE]
                 ELSE DeleteLoop(sel \ {i}, Remove(songs, i),
                                 IF psi = Some(i) THEN Some(i - 1)
                                 ELSE IF is_some(psi) /\ UGt(unwrap(psi), i)
                                        THEN Some(unwrap(psi) - 1)
                                        ELSE psi,
                                 checked)

\* lines 416-445: the selection moves down, highest index first
RECURSIVE MoveDownLoop(_, _, _, _, _)
MoveDownLoop(sel, songs, psi, last_index, moved) ==
    IF sel = {}
      THEN [songs |-> songs, playing_song_index |-> psi, selected |-> moved]
      ELSE LET i == SetMax(sel)
               swaps == i < Len(songs) /\ (is_none(last_index) \/ unwrap(last_index) > i + 1)
               j == IF swaps THEN i + 1 ELSE i
           IN  MoveDownLoop(sel \ {i},
                            IF swaps THEN Swap(songs, i, i + 1) ELSE songs,
                            IF ~swaps THEN psi
                            ELSE IF psi = Some(i) THEN Some(i + 1)
                            ELSE IF psi = Some(i + 1) THEN Some(i)
                            ELSE psi,
                            Some(j), moved \cup {j})

\* lines 446-475: the selection moves up, lowest index first
RECURSIVE MoveUpLoop(_, _, _, _, _)
MoveUpLoop(sel, songs, psi, last_index, moved) ==
    IF sel = {}
      THEN [songs |-> songs, playing_song_index |-> psi, selected |-> moved]
      ELSE LET i == SetMin(sel)
               swaps == i > 1 /\ (is_none(last_index) \/ unwrap(last_index) < i - 1)
               j == IF swaps THEN i - 1 ELSE i
           IN  MoveUpLoop(sel \ {i},
                          IF swaps THEN Swap(songs, i, i - 1) ELSE songs,
                          IF ~swaps THEN psi
                          ELSE IF psi = Some(i) THEN Some(i - 1)
                          ELSE IF psi = Some(i - 1) THEN Some(i)
                          ELSE psi,
                          Some(j), moved \cup {j})

\* what a step on the playlists leaves alone
EditFrame ==
    UNCHANGED <<state, is_playing, volume, pc, packet, position, song_ended, ui_seek,
                paused, pendingSeek, nPlays, sincePlay, conv, lock>>

\* the exists flags of the playing playlist's songs: every file is there
PlayingFlags(u) ==
    [i \in 1..Len(u.playlists[unwrap(u.playing_playlist_index)]) |-> TRUE]

\* lines 513-514: a playlist is clicked
SelectPlaylist(p) ==
    /\ ~dropped
    /\ ui' = [ui EXCEPT !.selected_playlist_index = p, !.selected_song_indices = {}]
    /\ ev' = Event("selectPlaylist", p)
    /\ UNCHANGED <<action_rx, sent, dropped>>
    /\ EditFrame

\* lines 795-817: songs of the selected playlist are clicked, with or without
\* ctrl or shift
SelectSongs(indices) ==
    /\ ~dropped
    /\ indices # {}
    /\ indices \subseteq 1..Len(ui.playlists[ui.selected_playlist_index])
    /\ ui' = [ui EXCEPT !.selected_song_indices = indices]
    /\ ev' = Event("selectSongs", 0)
    /\ UNCHANGED <<action_rx, sent, dropped>>
    /\ EditFrame

\* lines 816-834: a song of the selected playlist is double-clicked
PlaySelected(i) ==
    /\ i \in 1..Len(ui.playlists[ui.selected_playlist_index])
    /\ sent < MaxEditSends
    /\ CallerSend(Play(ui.playlists[ui.selected_playlist_index][i]))
    /\ ui' = [ui EXCEPT !.selected_song_indices = {i},
                        !.is_playing = TRUE,
                        !.playing_playlist_index = Some(ui.selected_playlist_index),
                        !.playing_song_index = Some(i)]
    /\ ev' = Event("playSong", i)
    /\ UNCHANGED dropped
    /\ EditFrame

\* next, prev and stop with a current song the playing playlist holds; an
\* index outside the playlist is followed no further
StepSong(op) ==
    /\ HasCurrent(ui) => ValidCurrent(ui)
    /\ sent < MaxEditSends
    /\ CASE op = "nextSong" ->
              next_in(ui, IF HasCurrent(ui) THEN PlayingFlags(ui) ELSE <<>>,
                      IF HasCurrent(ui)
                        THEN ui.playlists[unwrap(ui.playing_playlist_index)] ELSE <<>>)
         [] op = "prevSong" ->
              prev_in(ui, IF HasCurrent(ui) THEN PlayingFlags(ui) ELSE <<>>,
                      IF HasCurrent(ui)
                        THEN ui.playlists[unwrap(ui.playing_playlist_index)] ELSE <<>>)
         [] op = "stopPlayback" -> stop(ui)
    /\ ev' = Event(op, 0)
    /\ UNCHANGED dropped
    /\ EditFrame

\* lines 399-414: Delete with songs selected
DeleteSelected(checked) ==
    /\ ~dropped
    /\ ui.selected_song_indices # {}
    /\ LET r == DeleteLoop(ui.selected_song_indices,
                           ui.playlists[ui.selected_playlist_index],
                           ui.playing_song_index, checked)
       IN  IF r.panicked
             THEN /\ dropped' = TRUE
                  /\ ev' = Event("editPanic", 0)
                  /\ UNCHANGED ui
             ELSE /\ ui' = [ui EXCEPT !.playlists[ui.selected_playlist_index] = r.songs,
                                      !.playing_song_index = r.playing_song_index,
                                      !.selected_song_indices = {}]
                  /\ ev' = Event("delete", 0)
                  /\ UNCHANGED dropped
    /\ UNCHANGED <<action_rx, sent>>
    /\ EditFrame

\* lines 416-475: J moves the selection down, K up; not in a default playlist
MoveSelected(down) ==
    /\ ~dropped
    /\ ui.selected_song_indices # {}
    /\ ui.selected_playlist_index # AllPlaylist
    /\ LET songs == ui.playlists[ui.selected_playlist_index]
           r == IF down
                  THEN MoveDownLoop(ui.selected_song_indices, songs,
                                    ui.playing_song_index, None, {})
                  ELSE MoveUpLoop(ui.selected_song_indices, songs,
                                  ui.playing_song_index, None, {})
       IN  ui' = [ui EXCEPT !.playlists[ui.selected_playlist_index] = r.songs,
                            !.playing_song_index = r.playing_song_index,
                            !.selected_song_indices = r.selected]
    /\ ev' = Event(IF down THEN "moveDown" ELSE "moveUp", 0)
    /\ UNCHANGED <<action_rx, sent, dropped>>
    /\ EditFrame

\* the number the next added song gets: ui.added songs have been handed one
NextSongId == ui.added + 1

\* actions.rs lines 83-95 and 246-263: the State add_song leaves: the new
\* song at the front of the playlist and at the end of "All", the selection
\* and the playing index of that playlist moved on by increment_indices
added_song(u, playlist_index) ==
    LET inserted == [u.playlists EXCEPT ![playlist_index] = <<u.added + 1>> \o @]
    IN  [u EXCEPT
           !.playlists = [inserted EXCEPT ![AllPlaylist] = Append(@, u.added + 1)],
           !.added = u.added + 1,
           !.selected_song_indices =
               IF u.selected_playlist_index = playlist_index
                 THEN {i + 1 : i \in @} ELSE @,
           !.playing_song_index =
               IF u.playing_playlist_index = Some(playlist_index) /\ is_some(@)
                 THEN Some(unwrap(@) + 1) ELSE @]

\* add_song called with a song to add; the increment of a playing index that
\* stands at usize::MAX overflows
add_song(playlist_index, checked) ==
    /\ ~dropped
    /\ NextSongId <= MaxSongId
    /\ IF /\ ui.playing_playlist_index = Some(playlist_index)
          /\ ui.playing_song_index = Some(0)
          /\ checked
         THEN /\ dropped' = TRUE
              /\ ev' = Event("editPanic", 0)
              /\ UNCHANGED ui
         ELSE /\ ui' = added_song(ui, playlist_index)
              /\ ev' = Event("addSong", playlist_index)
              /\ UNCHANGED dropped
    /\ UNCHANGED <<action_rx, sent>>
    /\ EditFrame

\* "All" and one playlist of the user, nothing selected, nothing playing
InitEdit ==
    /\ InitRun
    /\ conv = NoConv
    /\ lock = "free"
    /\ ui = [playlists |-> <<<<1, 2>>, <<2, 1>>>>,
             selected_playlist_index |-> AllPlaylist,
             selected_song_indices |-> {},
             playing_playlist_index |-> None,
             playing_song_index |-> None,
             is_playing |-> FALSE,
             received |-> 0,
             added |-> 2]

NextEdit ==
    \/ \E p \in {AllPlaylist, UserPlaylist} : SelectPlaylist(p)
    \/ \E indices \in SUBSET (1..(MaxSongId + 2)) : SelectSongs(indices)
    \/ \E i \in 1..(MaxSongId + 2) : PlaySelected(i)
    \/ \E op \in {"nextSong", "prevSong", "stopPlayback"} : StepSong(op)
    \/ \E checked \in BOOLEAN : DeleteSelected(checked)
    \/ \E down \in BOOLEAN : MoveSelected(down)
    \/ \E p \in {AllPlaylist, UserPlaylist}, checked \in BOOLEAN : add_song(p, checked)

SpecEdit == InitEdit /\ [][NextEdit]_vars

\* ---------------------------------------------------------------------
\* Downloads (download.rs).  In this specification ui holds the State of
\* the playlists together with download_state, the child process it
\* tracks, the two listener threads of that child, the file name line of
\* yt-dlp on its way from the child to State.download_path, and two
\* counters: the downloads started and the kill signals delivered.
\* ---------------------------------------------------------------------

\* download.rs lines 47-67: both listener threads of a child just spawned
NewListeners == <<"running", "running">>

\* download.rs lines 128-129 and 174-175: the two kill sends of one observed
\* exit; a send to a listener thread that is gone fails and unwrap panics,
\* the second send is then never reached
KillsSent(listeners) ==
    IF listeners[1] # "running" THEN 0
    ELSE IF listeners[2] # "running" THEN 1
    ELSE 2

DownloadFrame ==
    /\ UNCHANGED <<action_rx, sent>>
    /\ EditFrame

\* download.rs lines 69-89: download returns at once unless download_state is
\* None; otherwise it spawns yt-dlp (unwrap on the spawn), starts the two
\* listeners and stores them in Downloading
download(spawned) ==
    /\ ~dropped
    /\ IF ui.download_state # "None"
         THEN /\ ev' = Event("download", 0)
              /\ UNCHANGED <<ui, dropped>>
         ELSE /\ ui.downloads < MaxDownloads
              /\ IF ~spawned
                   THEN /\ dropped' = TRUE
                        /\ ev' = Event("downloadPanic", 0)
                        /\ UNCHANGED ui
                   ELSE /\ ui' = [ui EXCEPT !.download_state = "Downloading",
                                            !.child = "running",
                                            !.listeners = NewListeners,
                                            !.line = "unprinted",
                                            !.downloads = @ + 1]
                        /\ ev' = Event("download", 1)
                        /\ UNCHANGED dropped
    /\ DownloadFrame

\* download.rs lines 19-20: yt-dlp prints the name of the file it writes
ChildPrints ==
    /\ ~dropped
    /\ ui.download_state = "Downloading"
    /\ ui.child = "running"
    /\ ui.line = "unprinted"
    /\ ui' = [ui EXCEPT !.line = "pipe"]
    /\ ev' = Event("childPrints", 0)
    /\ UNCHANGED dropped
    /\ DownloadFrame

\* download.rs lines 58-63: the stdout listener reads a line and sends it on
ListenerForwards ==
    /\ ~dropped
    /\ ui.listeners[1] = "running"
    /\ ui.line = "pipe"
    /\ ui' = [ui EXCEPT !.line = "channel"]
    /\ ev' = Event("listenerForwards", 0)
    /\ UNCHANGED dropped
    /\ DownloadFrame

\* download.rs line 59: read_line fails (output that is not UTF-8) and the
\* unwrap ends the listener thread
ListenerFails(k) ==
    /\ ~dropped
    /\ ui.child = "running"
    /\ ui.listeners[k] = "running"
    /\ ui' = [ui EXCEPT !.listeners[k] = "gone"]
    /\ ev' = Event("listenerFails", k)
    /\ UNCHANGED dropped
    /\ DownloadFrame

\* the tracked child process exits, with success or not
ChildExit(ok) ==
    /\ ~dropped
    /\ ui.child = "running"
    /\ ui' = [ui EXCEPT !.child = IF ok THEN "ok" ELSE "failed"]
    /\ ev' = Event("childExit", IF ok THEN 1 ELSE 0)
    /\ UNCHANGED dropped
    /\ DownloadFrame

\* download.rs lines 102-124: the Downloading arm takes the lines received
\* so far; a line that is not a status line becomes download_path
ReceivedPath(u) ==
    IF u.download_state = "Downloading" /\ u.line = "channel"
      THEN [u EXCEPT !.download_path = Some(u.downloads), !.line = "received"]
      ELSE u

\* download.rs lines 127-165, as update but adding the song as soon as the
\* download itself has succeeded
update_adds_on_download(spawned) ==
    /\ ~dropped
    /\ LET u == ReceivedPath(ui)
           exited == u.child \in {"ok", "failed"}
           n == KillsSent(u.listeners)
           k == [u EXCEPT !.kills = @ + n,
                          !.listeners = [i \in 1..2 |->
                              IF i <= n THEN "killed" ELSE u.listeners[i]]]
           over == [k EXCEPT !.download_state = "None", !.child = "none"]
       IN  IF u.download_state = "None" \/ ~exited
             THEN /\ ui' = u
                  /\ ev' = Event("update", 0)
                  /\ UNCHANGED dropped
           ELSE IF \/ n < 2
                   \/ u.child = "ok" /\ is_none(u.download_path)
                   \/ u.child = "ok" /\ u.download_state = "Downloading" /\ ~spawned
                   \/ u.child = "ok" /\ u.download_state = "Postprocessing"
                                     /\ is_none(u.download_playlist_index)
             THEN /\ ui' = k
                  /\ dropped' = TRUE
                  /\ ev' = Event("downloadPanic", n)
           ELSE IF u.download_state = "Downloading" /\ u.child = "ok"
             THEN /\ ui' = [added_song(k, unwrap(u.download_playlist_index))
                              EXCEPT !.download_state = "Postprocessing",
                                     !.child = "running",
                                     !.listeners = NewListeners]
                  /\ ev' = Event("update", 1)
                  /\ UNCHANGED dropped
           ELSE IF u.download_state = "Postprocessing" /\ u.child = "ok"
             THEN /\ ui' = added_song(over, unwrap(u.download_playlist_index))
                  /\ ev' = Event("update", 2)
                  /\ UNCHANGED dropped
           ELSE /\ ui' = over
                /\ ev' = Event("update", 3)
                /\ UNCHANGED dropped
    /\ DownloadFrame

\* download.rs lines 91-224: update does nothing in None; in Downloading and
\* in Postprocessing it acts once try_wait reports the exit of the child: it
\* sends both kill signals (unwrap on each send), then after a successful
\* download starts aacgain on download_path.unwrap() with two new listeners
\* and goes to Postprocessing, after a successful postprocessing calls
\* add_song with download_path.unwrap() and download_playlist_index.unwrap(),
\* and in every other case, and after add_song, goes to None
update(spawned) ==
    /\ ~dropped
    /\ LET u == ReceivedPath(ui)
           exited == u.child \in {"ok", "failed"}
           n == KillsSent(u.listeners)
           k == [u EXCEPT !.kills = @ + n,
                          !.listeners = [i \in 1..2 |->
                              IF i <= n THEN "killed" ELSE u.listeners[i]]]
           over == [k EXCEPT !.download_state = "None", !.child = "none"]
       IN  IF u.download_state = "None" \/ ~exited
             THEN /\ ui' = u
                  /\ ev' = Event("update", 0)
                  /\ UNCHANGED dropped
           ELSE IF \/ n < 2
                   \/ u.child = "ok" /\ is_none(u.download_path)
                   \/ u.child = "ok" /\ u.download_state = "Downloading" /\ ~spawned
                   \/ u.child = "ok" /\ u.download_state = "Postprocessing"
                                     /\ is_none(u.download_playlist_index)
             THEN /\ ui' = k
                  /\ dropped' = TRUE
                  /\ ev' = Event("downloadPanic", n)
           ELSE IF u.download_state = "Downloading" /\ u.child = "ok"
             THEN /\ ui' = [k EXCEPT !.download_state = "Postprocessing",
                                     !.child = "running",
                                     !.listeners = NewListeners]
                  /\ ev' = Event("update", 1)
                  /\ UNCHANGED dropped
           ELSE IF u.download_state = "Postprocessing" /\ u.child = "ok"
             THEN /\ ui' = added_song(over, unwrap(u.download_playlist_index))
                  /\ ev' = Event("update", 2)
                  /\ UNCHANGED dropped
           ELSE /\ ui' = over
                /\ ev' = Event("update", 3)
                /\ UNCHANGED dropped
    /\ DownloadFrame

\* the State of InitEdit with no download under way and a playlist chosen
\* for the download
InitDownload ==
    /\ InitRun
    /\ conv = NoConv
    /\ lock = "free"
    /\ \E p \in {AllPlaylist, UserPlaylist} :
         ui = [playlists |-> <<<<1, 2>>, <<2, 1>>>>,
               selected_playlist_index |-> AllPlaylist,
               selected_song_indices |-> {},
               playing_playlist_index |-> None,
               playing_song_index |-> None,
               is_playing |-> FALSE,
               received |-> 0,
               added |-> 2,
               download_state |-> "None",
               child |-> "none",
               listeners |-> <<"none", "none">>,
               line |-> "unprinted",
               download_path |-> None,
               download_playlist_index |-> Some(p),
               downloads |-> 0,
               kills |-> 0]

NextDownload ==
    \/ \E spawned \in BOOLEAN : download(spawned)
    \/ ChildPrints
    \/ ListenerForwards
    \/ \E k \in 1..2 : ListenerFails(k)
    \/ \E ok \in BOOLEAN : ChildExit(ok)
    \/ \E spawned \in BOOLEAN : update(spawned)

SpecDownload == InitDownload /\ [][NextDownload]_vars

\* ---------------------------------------------------------------- claims
\* the engine takes action a off the control channel and applies it
Applies(a) ==
    /\ pc = "intake"
    /\ action_rx # <<>>
    /\ Head(action_rx) = a
    /\ action_rx' = Tail(action_rx)

AppliesType(t) == \E a \in PlayerAction : a.type = t /\ Applies(a)

\* C1: applying Stop, in whichever state, leaves no session, Playing = false
\* and the completion channel as it was
C1_StopNeverNotifies ==
    [][Applies(Stop) =>
          /\ is_none(state')
          /\ ~is_playing'
          /\ song_ended' = song_ended]_vars

C1_Witness ==
    /\ ev.kind = "Stop"
    /\ ev.from = "Playing"
    /\ is_none(state)
    /\ song_ended = 0

\* C2: a failed packet read or an unrecoverable decoder error, with the
\* completion receiver alive, drops the session, clears Playing and sends
\* exactly one notification; a notification
\* is sent only by a step that drops a session, one at a time, so there are
\* never more notifications than Play actions applied
C2_TeardownNotifiesOnce ==
    /\ [](song_ended <= nPlays)
    /\ [][ev'.kind \in {"readErr", "decodeFatal"} =>
             /\ is_some(state)
             /\ is_none(state')
             /\ ~is_playing'
             /\ song_ended' = song_ended + 1]_vars
    /\ [][song_ended' # song_ended =>
             /\ song_ended' = song_ended + 1
             /\ is_some(state)
             /\ is_none(state')
             /\ ev'.kind \in {"readErr", "decodeFatal"}]_vars

C2_Witness ==
    /\ ev.kind = "readErr"
    /\ song_ended = 2
    /\ nPlays = 2

\* C3: Playing is true exactly when there is a session that is not paused
C3_PlayingIffSessionNotPaused ==
    is_playing <=> (is_some(state) /\ ~paused)

C3_Witness ==
    /\ ev.kind = "Resume"
    /\ ev.from = "Paused"
    /\ is_playing
    /\ is_some(state)

\* C4: while Idle every action but Play leaves the engine Idle and running,
\* Position and the completion channel untouched; only Play loads a session
C4_IdleFrame ==
    /\ [][is_none(state) /\ (\E a \in PlayerAction : a.type # "Play" /\ Applies(a)) =>
             /\ is_none(state')
             /\ pc' = "intake"
             /\ position' = position
             /\ song_ended' = song_ended]_vars
    /\ [][is_none(state) /\ is_some(state') => AppliesType("Play")]_vars

C4_Witness ==
    /\ ev.kind = "Seek"
    /\ ev.from = "Idle"
    /\ is_none(state)
    /\ pc = "intake"

\* C5: a session is dropped only by Stop, by a failed packet read or by an
\* unrecoverable decoder error (whether or not its notification can still be
\* sent); Pause, Resume, Seek, SetVolume, a successful decode and a
\* recoverable decode error keep it
C5_OnlyStopOrFailureUnloads ==
    /\ [][is_some(state) /\ is_none(state') =>
             \/ Applies(Stop)
             \/ ev'.kind \in {"readErr", "decodeFatal", "endedPanic"}]_vars
    /\ [][/\ is_some(state)
          /\ ev'.kind \in {"Pause", "Resume", "Seek", "SetVolume", "decodeOk", "decodeErr"}
          => is_some(state')]_vars

C5_Witness ==
    /\ ev.kind = "decodeErr"
    /\ is_some(state)
    /\ unwrap(state).cursor = 2

\* C6: a Play that opens its file replaces whatever session there was by a
\* fresh one for its path, sink not open, sets Playing and sends no
\* notification
C6_PlayReplacesSession ==
    [][\A p \in Tracks :
          Applies(Play(p)) /\ pc' # "panicked" =>
             /\ state' = Some([path |-> p, cursor |-> 0, audio_output |-> FALSE])
             /\ is_playing'
             /\ pc' = "read"
             /\ song_ended' = song_ended]_vars

C6_Witness ==
    /\ ev.kind = "Play"
    /\ ev.arg = 2
    /\ ev.from = "Paused"
    /\ state = Some([path |-> 2, cursor |-> 0, audio_output |-> FALSE])
    /\ is_playing

\* C7: with a session Pause clears and Resume sets Playing, and neither
\* touches the session (cursor, sink), the multiplier or Position; without a
\* session neither changes anything
C7_PauseResumeFrame ==
    [][Applies(Pause) \/ Applies(Resume) =>
          /\ state' = state
          /\ volume' = volume
          /\ position' = position
          /\ song_ended' = song_ended
          /\ is_playing' = IF is_some(state) THEN Applies(Resume) ELSE is_playing]_vars

C7_Witness ==
    /\ ev.kind = "Pause"
    /\ ev.from = "Playing"
    /\ ~is_playing
    /\ is_some(state)
    /\ unwrap(state).cursor = 1
    /\ unwrap(state).audio_output

\* C8: Seek and SetVolume applied to a loaded engine leave it loaded and
\* running in the sub-state it was in, whatever the reader's seek returns
C8_SeekSetVolumeKeepSubState ==
    [][is_some(state) /\ (AppliesType("Seek") \/ AppliesType("SetVolume")) =>
          /\ is_some(state')
          /\ is_playing' = is_playing
          /\ paused' = paused
          /\ pc' # "panicked"]_vars

\* C9: a Seek is applied with no packet in flight and moves the cursor at
\* once, so the next packet read is the one the seek landed on; without a
\* session Seek changes nothing
C9_SeekBeforeNextRead ==
    /\ [][\A ms \in SeekTargets :
             Applies(Seek(ms)) /\ is_some(state) /\ pc' # "panicked" =>
                /\ packet = -1
                /\ packet' = -1
                /\ unwrap(state').cursor = SeekIndex(ms_to_time(ms))]_vars
    /\ [][pendingSeek # -1 /\ ev'.kind = "readOk" =>
             packet' = SeekIndex(ms_to_time(pendingSeek))]_vars
    /\ [][AppliesType("Seek") /\ is_none(state) =>
             UNCHANGED <<state, is_playing, volume, packet, position, song_ended>>]_vars

C9_Witness ==
    /\ ev.kind = "readOk"
    /\ pendingSeek = 50
    /\ packet = SeekIndex(ms_to_time(50))
    /\ packet # 0

\* C10: the first decode after a Seek, when it succeeds, publishes a
\* Position within one packet duration of the seek target
C10_SeekThenDecodePosition ==
    ev.kind = "decodeOk" /\ ev.arg # -1 =>
        /\ position - ev.arg <= PacketMs
        /\ ev.arg - position <= PacketMs

C10_Witness ==
    /\ ev.kind = "decodeOk"
    /\ ev.arg = 50
    /\ position # 50
    /\ position # 0

\* C11: the multiplier changes only when the engine applies SetVolume(v), to
\* v; every sink write is made with the multiplier as it then is; applying
\* SetVolume touches neither the session nor a decoded buffer
C11_WriteUsesLatestVolume ==
    /\ [][ev'.kind \in {"writeOk", "writePanic"} =>
             /\ ev'.arg = volume
             /\ volume' = volume]_vars
    /\ [][volume' # volume =>
             \E v \in Volumes : Applies(SetVolume(v)) /\ volume' = v]_vars
    /\ [][\A v \in Volumes : Applies(SetVolume(v)) =>
             /\ volume' = v
             /\ UNCHANGED <<state, is_playing, packet, position>>]_vars

C11_Witness ==
    /\ ev.kind = "writeOk"
    /\ ev.arg = 0
    /\ nPlays = 2

\* C12: the control channel grows only at its end, by the action sent, and
\* shrinks only at its front, by the action the engine then applies: actions
\* are applied in send order, each once
C12_AppliedInSendOrder ==
    [][action_rx' # action_rx =>
          \/ /\ \E a \in PlayerAction : action_rx' = Append(action_rx, a)
             /\ sent' = sent + 1
             /\ ev'.kind = "send"
          \/ /\ action_rx # <<>>
             /\ action_rx' = Tail(action_rx)
             /\ ev'.kind \in {Head(action_rx).type, Head(action_rx).type \o "Panic"}
             /\ ev'.arg = Head(action_rx).arg]_vars

C12_Witness ==
    /\ ev.kind = "Stop"
    /\ sent = 3
    /\ Len(action_rx) = 1
    /\ action_rx[1].type = "Play"
    /\ nPlays = 1

\* C13: from the step that applies Play until a Pause, Seek or Stop is
\* applied or the session is torn down, Position never decreases
C13_PositionMonotoneSincePlay ==
    [][sincePlay /\ sincePlay' => position' >= position]_vars

\* C14: within a session the reader cursor moves only by a successful read,
\* which hands out the packet at the cursor and advances it by one, or by an
\* applied Seek; Pause, Resume and the blocked wait leave it alone, and only
\* the packet just read is decoded and written. So without a Seek the packets
\* of a session are read consecutively, each once
C14_PauseResumeKeepsCursor ==
    /\ [][/\ is_some(state) /\ is_some(state')
          /\ unwrap(state').cursor # unwrap(state).cursor
          => \/ /\ ev'.kind = "readOk"
                /\ packet' = unwrap(state).cursor
                /\ unwrap(state').cursor = unwrap(state).cursor + 1
             \/ AppliesType("Seek")
             \/ AppliesType("Play")]_vars
    /\ [][ev'.kind = "readOk" =>
             /\ packet' = unwrap(state).cursor
             /\ unwrap(state').cursor = packet' + 1]_vars
    /\ [][packet # -1 /\ packet' # packet => packet' = -1]_vars
    /\ [](pc \in {"decode", "write"} =>
             is_some(state) /\ packet = unwrap(state).cursor - 1)

C14_Witness ==
    /\ ev.kind = "Resume"
    /\ ev.from = "Paused"
    /\ pc = "read"
    /\ unwrap(state).cursor = 2
    /\ unwrap(state).audio_output
    /\ pendingSeek = -1
    /\ position = PacketPosition(1)

\* C15: a read that fails (end of stream), with the completion receiver
\* alive, leaves the engine Idle at its intake with one more notification and
\* Position as it was; while Idle the engine never writes Position (only the
\* UI's seek slider does)
C15_EndOfStreamIdleFrozen ==
    /\ [][ev'.kind = "readErr" =>
             /\ is_some(state)
             /\ is_none(state')
             /\ ~is_playing'
             /\ pc' = "intake"
             /\ song_ended' = song_ended + 1
             /\ position' = position]_vars
    /\ [][is_none(state) /\ position' # position => ev'.kind = "store"]_vars

C15_Witness ==
    /\ ev.kind = "readErr"
    /\ is_none(state)
    /\ pc = "intake"
    /\ song_ended = 1
    /\ nPlays = 1
    /\ position = PacketPosition(TrackLen - 1)
    /\ position # 0

\* C16 as stated: Position changes only in a step of the engine thread (its
\* one write is at a successful decode)
C16_OnlyEngineWritesPosition ==
    [][position' # position => ev'.kind = "decodeOk"]_vars

\* C16: Position has two writers: the engine, which at a successful decode
\* stores the decoded packet's time, and the UI, which on releasing the song
\* slider stores the seek target it has just sent; nothing else writes it
C16_PositionWriters ==
    [][position' # position =>
          \/ /\ ev'.kind = "decodeOk"
             /\ position' = PacketPosition(packet)
          \/ /\ ev'.kind = "store"
             /\ ui_seek \in SeekTargets
             /\ position' = ui_seek
             /\ sent > 0]_vars

C16_Witness ==
    /\ ev.kind = "store"
    /\ ev.from = "Playing"
    /\ position = 200
    /\ pc = "write"
    /\ packet = 0

\* C17: once the caller's State is dropped (every sender gone) the engine
\* thread does not panic, whichever state it was in; the panics of a failed
\* file, seek, device or sink call, and the caller's own panic on sending to
\* an engine so lost, are left aside
C17_ClosureEndsNormally ==
    dropped /\ pc = "panicked" =>
        ev.kind \in {"PlayPanic", "SeekPanic", "openPanic", "writePanic", "sendPanic"}

\* C18: a recoverable decode error leaves the session as it is, cursor past
\* the bad packet, and Playing set; the packet is dropped without reaching the
\* sink write, Position and the completion channel are untouched, and the
\* engine goes back to its intake, from where the next read takes the
\* following packet
C18_DecodeErrorSkipsFrame ==
    /\ [][ev'.kind = "decodeErr" =>
             /\ is_some(state)
             /\ state' = state
             /\ is_playing /\ is_playing'
             /\ unwrap(state').cursor = packet + 1
             /\ packet' = -1
             /\ pc' = "intake"
             /\ position' = position
             /\ song_ended' = song_ended]_vars
    /\ [][pc' = "write" /\ pc # "write" => ev'.kind = "decodeOk"]_vars
    /\ [][ev'.kind \in {"writeOk", "writePanic"} => pc = "write"]_vars

C18_Witness ==
    /\ ev.kind = "decodeErr"
    /\ is_playing
    /\ unwrap(state).cursor = 2
    /\ unwrap(state).audio_output
    /\ position = PacketPosition(0)
    /\ song_ended = 0

\* C19: a session's sink goes from not open to open only at a successful
\* decode of that session, and once open stays open for as long as the
\* session lives; a Play installs its session with the sink not open
C19_SinkOpenedLazily ==
    /\ [][/\ is_some(state')
          /\ unwrap(state').audio_output
          /\ ~(is_some(state) /\ unwrap(state).audio_output)
          => /\ ev'.kind = "decodeOk"
             /\ is_some(state)
             /\ unwrap(state').path = unwrap(state).path]_vars
    /\ [][/\ is_some(state) /\ unwrap(state).audio_output
          /\ is_some(state') /\ ~unwrap(state').audio_output
          => AppliesType("Play")]_vars
    /\ [][AppliesType("Play") /\ pc' # "panicked" =>
             ~unwrap(state').audio_output]_vars

C19_Witness ==
    /\ ev.kind = "decodeOk"
    /\ nPlays = 2
    /\ unwrap(state).path = 2
    /\ unwrap(state).audio_output
    /\ unwrap(state).cursor = 1
    /\ position = 0

\* C20: there is never more than one session, hence never more than one open
\* sink
C20_AtMostOneSession ==
    /\ Len(state) <= 1
    /\ Cardinality({i \in 1..Len(state) : state[i].audio_output}) <= 1

C20_Witness ==
    /\ ev.kind = "Play"
    /\ ev.from = "Playing"
    /\ nPlays = 2
    /\ Len(state) = 1
    /\ unwrap(state).path = 1
    /\ ~unwrap(state).audio_output
    /\ position = PacketPosition(1)

\* C21: an action leaves the channel only at the top of the loop, with no
\* packet in hand; a sink write in flight is left only by its own completion;
\* applying Stop leaves no session, and with no session the engine reads,
\* decodes and writes nothing and does not touch Position until a Play is
\* applied
C21_StopCooperative ==
    /\ [][action_rx # <<>> /\ action_rx' = Tail(action_rx) =>
             pc = "intake" /\ packet = -1]_vars
    /\ [][pc = "write" /\ pc' # "write" =>
             ev'.kind \in {"writeOk", "writePanic"}]_vars
    /\ [][Applies(Stop) =>
             is_none(state') /\ ~is_playing' /\ pc' = "intake"]_vars
    /\ [][is_none(state) =>
             /\ ev'.kind \notin {"readOk", "readErr", "endedPanic", "decodeOk",
                                 "decodeErr", "decodeFatal", "openPanic",
                                 "writeOk", "writePanic"}
             /\ position' # position => ev'.kind = "store"
             /\ is_some(state') => AppliesType("Play")]_vars

C21_Witness ==
    /\ ev.kind = "Stop"
    /\ ev.from = "Playing"
    /\ is_none(state)
    /\ pc = "intake"
    /\ position = PacketPosition(1)
    /\ action_rx = <<>>

\* C22 as stated: a Play whose file cannot be opened or probed aborts the
\* process: from the state it leaves no thread takes another step
C22_OpenFailureAbortsProcess ==
    [][ev.kind = "PlayPanic" => UNCHANGED vars]_vars

\* C22: a Play whose file cannot be opened or probed panics the engine
\* thread: the engine is not left Idle at its intake, the session, Playing,
\* Position and the completion channel are as they were (nothing is reported)
\* and the engine never applies another action; the main thread runs on, no
\* send of it reaches the engine any more, and the first one it tries panics
C22_OpenFailureKillsEngine ==
    /\ [][ev'.kind = "PlayPanic" =>
             /\ AppliesType("Play")
             /\ pc' = "panicked"
             /\ UNCHANGED <<state, is_playing, position, song_ended, dropped>>]_vars
    /\ [][pc = "panicked" =>
             /\ pc' = "panicked"
             /\ UNCHANGED <<action_rx, sent, state, is_playing, song_ended>>
             /\ ev'.kind \in {"store", "sendPanic"}]_vars
    /\ [][ev'.kind = "sendPanic" => pc = "panicked" /\ ~dropped /\ dropped']_vars

C22_Witness ==
    /\ ev.kind = "sendPanic"
    /\ ev.from = "Idle"
    /\ pc = "panicked"
    /\ nPlays = 0
    /\ sent = 1
    /\ action_rx = <<>>

\* C23: a failed sink write panics the engine thread where it stands: the
\* session is not dropped by a teardown, no notification is sent for it, and
\* whatever is or will be in the channel is never applied
C23_WriteFailureAbortsEngine ==
    /\ [][ev'.kind = "writePanic" =>
             /\ pc = "write"
             /\ pc' = "panicked"
             /\ is_some(state)
             /\ UNCHANGED <<state, is_playing, song_ended, position, action_rx>>]_vars
    /\ [][pc = "panicked" => ~(\E a \in PlayerAction : Applies(a))]_vars
    /\ [][pc = "panicked" => pc' = "panicked" /\ song_ended' = song_ended]_vars

C23_Witness ==
    /\ ev.kind = "writePanic"
    /\ pc = "panicked"
    /\ is_some(state)
    /\ is_playing
    /\ song_ended = 0
    /\ Len(action_rx) = 2

\* C29: a step takes at most one action off the channel, and only at the
\* intake; when the engine is Loaded-Playing after applying it, the engine
\* stands at the packet read, which it leaves only by reading: between two
\* actions applied while Playing there is a packet read
C29_OneActionPerIteration ==
    /\ [][Len(action_rx') < Len(action_rx) =>
             /\ pc = "intake"
             /\ action_rx' = Tail(action_rx)]_vars
    /\ [][/\ \E a \in PlayerAction : Applies(a)
          /\ is_some(state') /\ is_playing' /\ pc' # "panicked"
          => pc' = "read"]_vars
    /\ [][pc = "read" /\ pc' # "read" =>
             ev'.kind \in {"readOk", "readErr", "endedPanic"}]_vars
    /\ [][pc = "read" => action_rx' = action_rx \/ ev'.kind = "send"]_vars

C29_Witness ==
    /\ ev.kind = "readOk"
    /\ ev.arg = 1
    /\ nPlays = 1
    /\ volume = 0
    /\ is_playing
    /\ sent = 3
    /\ action_rx = <<Resume>>

\* C30: while not Playing the engine stands at its intake with no packet in
\* hand; on an empty open channel it takes no step; and no step taken while
\* not Playing reads, decodes or writes a packet, stores a Position or sends
\* a notification
C30_BlocksWhileNotPlaying ==
    /\ [](~is_playing /\ Running => pc = "intake" /\ packet = -1)
    /\ [][~is_playing /\ action_rx = <<>> /\ ~dropped =>
             ev'.kind \in {"send", "store", "drop", "sendPanic"}]_vars
    /\ [][~is_playing =>
             /\ ev'.kind \notin {"poll", "readOk", "readErr", "endedPanic",
                                 "decodeOk", "decodeErr", "decodeFatal",
                                 "openPanic", "writeOk", "writePanic"}
             /\ song_ended' = song_ended
             /\ position' # position => ev'.kind = "store"]_vars

C30_Witness ==
    /\ ev.kind = "Pause"
    /\ ev.from = "Playing"
    /\ ~is_playing
    /\ pc = "intake"
    /\ action_rx = <<>>
    /\ sent = 2
    /\ unwrap(state).cursor = 2

\* C26: every SetVolume in the channel carries a multiplier between 0 and 1
\* (10000 in the units of the model)
C26_MultiplierInUnitInterval ==
    \A i \in 1..Len(action_rx) :
        action_rx[i].type = "SetVolume" =>
            action_rx[i].arg >= 0 /\ action_rx[i].arg <= 10000

\* C27: the SetVolume sent for control value v carries 0 when v is the
\* control's minimum and the fourth power of v otherwise, and the multiplier
\* the engine starts with is the fourth power of the caller's initial control
\* value
C27_VolumeCurve ==
    /\ InitVolume * 10000 <= InitSlider * InitSlider * InitSlider * InitSlider
    /\ InitSlider * InitSlider * InitSlider * InitSlider < (InitVolume + 1) * 10000
    /\ InitSlider # SliderMin
    /\ [][ev'.kind = "send" /\ ev'.arg # 0 =>
             LET v == ev'.arg
                 m == action_rx'[Len(action_rx')].arg
             IN  /\ action_rx' = Append(action_rx, SetVolume(m))
                 /\ v = SliderMin => m = 0
                 /\ v # SliderMin =>
                        m * 10000 <= v * v * v * v /\ v * v * v * v < (m + 1) * 10000]_vars

C27_Witness ==
    /\ ev.kind = "send"
    /\ ev.arg = SliderMin
    /\ action_rx = <<SetVolume(20736), SetVolume(0)>>
    /\ volume = InitVolume

\* C24: converting a position in ms to a Time and back gives the position
C24_RoundTrip ==
    conv.step = "out" /\ conv.ms # -1 => conv.out = conv.ms

C24_Witness ==
    /\ conv.step = "out"
    /\ conv.ms = 9999043
    /\ conv.time.seconds = 9999
    /\ conv.time.err < 0
    /\ conv.out = 9999043

\* C25: time_to_ms gives the whole seconds in ms plus the fraction in ms
\* rounded to the nearest whole number (halves upwards), and ms_to_time gives
\* ms / 1000 whole seconds and (ms % 1000) / 1000 as the fraction
C25_RoundsToNearest ==
    /\ conv.step = "out" =>
          conv.out = conv.time.seconds * 1000
                       + (2 * conv.time.frac * 1000 + TicksPerSecond)
                            \div (2 * TicksPerSecond)
    /\ conv.step \in {"time", "out"} /\ conv.ms # -1 =>
          /\ conv.time.seconds = conv.ms \div 1000
          /\ conv.time.frac * 1000 = (conv.ms % 1000) * TicksPerSecond

\* C28: when the caller takes a completion notification while it has a current
\* song, it sends Play for the existing song with the smallest index above the
\* current one and records that index as playing; when there is no such song
\* it sends Stop and clears its playing state
C28_AdvancesOnCompletion ==
    [][ /\ ui'.received = ui.received + 1
        /\ is_some(ui.playing_playlist_index)
        /\ is_some(ui.playing_song_index)
        => LET cur == unwrap(ui.playing_song_index)
               later == {i \in (cur + 1)..Len(ui.songs) : ui.songs[i]}
           IN  IF later # {}
                 THEN LET n == CHOOSE i \in later : \A j \in later : i <= j
                      IN  /\ action_rx' = Append(action_rx, Play(n))
                          /\ ui'.playing_song_index = Some(n)
                          /\ ui'.playing_playlist_index = ui.playing_playlist_index
                          /\ ui'.is_playing
                 ELSE /\ action_rx' = Append(action_rx, Stop)
                      /\ ui'.playing_song_index = None
                      /\ ui'.playing_playlist_index = None
                      /\ ~ui'.is_playing ]_vars

\* song 1 ended, song 2 is missing: Play of song 3 is queued and recorded
C28_Witness ==
    /\ ev.kind = "songEnded"
    /\ ui.songs = <<TRUE, FALSE, TRUE>>
    /\ ui.playing_song_index = Some(3)
    /\ ui.is_playing
    /\ action_rx # <<>>
    /\ action_rx[Len(action_rx)] = Play(3)
    /\ nPlays = 1

\* C31: a successful decode, the sink being open or opening, stores the
\* millisecond value of the decoded packet's timestamp in Position and hands
\* that same packet to the write; while the write is pending the engine does
\* not store again, so only the UI's store can change Position then; and
\* Position is always the time of a packet of the track or a value the UI stored
C31_PositionPerDecodedPacket ==
    /\ [][ev'.kind = "decodeOk" =>
             /\ pc = "decode" /\ pc' = "write"
             /\ packet' = packet
             /\ position' = (packet * PacketTicks) \div TicksPerMs]_vars
    /\ [][pc = "write" /\ position' # position => ev'.kind = "store"]_vars
    /\ [][ev'.kind \in {"writeOk", "writePanic"} =>
             /\ pc = "write"
             /\ position' = position
             /\ \/ position = (packet * PacketTicks) \div TicksPerMs
                \/ position \in SeekTargets]_vars
    /\ [](\/ position \in SeekTargets
          \/ \E p \in 0..(TrackLen - 1) : position = (p * PacketTicks) \div TicksPerMs)

\* the third packet of a session decoded, its time published, its write pending
C31_Witness ==
    /\ ev.kind = "decodeOk"
    /\ pc = "write"
    /\ packet = 2
    /\ position = (2 * PacketTicks) \div TicksPerMs
    /\ position > 0
    /\ ui_seek = -1

\* C32: while a decoded buffer's write is pending the engine takes no other
\* step: it reads and decodes nothing, applies no action and keeps packet and
\* cursor, until the write returns; a packet is read only with no buffer in
\* hand, so between two successful decodes there is a returned write
C32_WriteIsOnlyPacing ==
    /\ [][pc = "write" /\ pc' # "write" => ev'.kind \in {"writeOk", "writePanic"}]_vars
    /\ [][pc = "write" /\ pc' = "write" =>
             /\ packet' = packet
             /\ state' = state
             /\ Len(action_rx') >= Len(action_rx)
             /\ SubSeq(action_rx', 1, Len(action_rx)) = action_rx
             /\ ev'.kind \in {"send", "store", "drop"}]_vars
    /\ [][ev'.kind \in {"readOk", "readErr"} => pc = "read" /\ packet = -1]_vars
    /\ [][ev'.kind \in {"decodeOk", "decodeErr", "decodeFatal", "openPanic"} =>
             pc = "decode" /\ packet # -1]_vars
    /\ [][ev'.kind = "writeOk" => pc' = "intake" /\ packet' = -1]_vars
    /\ [](pc = "write" => packet # -1 /\ is_some(state) /\ is_playing)

\* the write of the second packet has returned and the third has been read
C32_Witness ==
    /\ ev.kind = "readOk"
    /\ pc = "decode"
    /\ packet = 2
    /\ position = PacketPosition(1)
    /\ nPlays = 1
    /\ action_rx = <<>>

\* C33: the engine holds the Position lock only inside the statement that
\* stores: never while it waits in the receive, reads, decodes or writes to
\* the sink, and its next step after taking the lock is the store that gives
\* it back; so during a sink write the lock is free or held by the caller
C33_LockOnlyAroundStore ==
    /\ [](pc \in {"intake", "read", "decode", "write", "panicked", "done"} =>
             lock # "engine")
    /\ [][lock = "engine" /\ pc' # pc =>
             /\ ev'.kind = "decodeOk"
             /\ pc' = "write"
             /\ lock' = "free"]_vars
    /\ [][lock # "engine" /\ lock' = "engine" => lock = "free" /\ pc = "decode"]_vars

\* the engine has stored the second packet's time and waits in the sink write
\* while the caller holds the lock to read the time
C33_Witness ==
    /\ lock = "read"
    /\ pc = "write"
    /\ packet = 1
    /\ position = PacketPosition(1)

\* C34: the step that applies a control action, whichever it is and whether
\* or not it succeeds, leaves Position as it was; the engine changes Position
\* only at a successful decode, so a newly installed session shows the value
\* left behind until its own first packet is decoded
C34_ActionsKeepPosition ==
    /\ [][action_rx # <<>> /\ action_rx' = Tail(action_rx) => position' = position]_vars
    /\ [][ev'.kind \in {"Play", "PlayPanic", "Pause", "Resume", "Stop", "Seek",
                        "SeekPanic", "SetVolume"} => position' = position]_vars
    /\ [][position' # position /\ ev'.kind # "store" =>
             /\ ev'.kind = "decodeOk"
             /\ pc = "decode"
             /\ is_some(state)]_vars

\* the second Play is applied after the first track's last packet was decoded:
\* the new session's cursor is at 0 and Position still shows the old track's end
C34_Witness ==
    /\ ev.kind = "Play"
    /\ nPlays = 2
    /\ unwrap(state).cursor = 0
    /\ position = PacketPosition(TrackLen - 1)
    /\ position > 0

\* C35: the caller never answers a completion notification with a Play for
\* the successor of its current song when that notification comes from a
\* session it has already replaced: not while a Play of its own still waits
\* in the channel, and not while a session installed after the notifying one
\* is alive
C35_NoStaleAdvance ==
    [][ /\ ui'.received = ui.received + 1
        /\ Len(action_rx') = Len(action_rx) + 1
        /\ action_rx'[Len(action_rx')].type = "Play"
        => /\ \A i \in 1..Len(action_rx) : action_rx[i].type # "Play"
           /\ is_none(state) ]_vars

\* C36: whenever the control channel is empty, every completion notification
\* has been taken, the engine thread is alive and the caller's State exists,
\* the caller's is_playing equals the engine's, and the caller has a current
\* song exactly when the engine has a session
C36_CallerAgreesAtQuiescence ==
    /\ action_rx = <<>>
    /\ song_ended = ui.received
    /\ pc \in {"intake", "read", "decode", "write"}
    /\ ~dropped
    => /\ ui.is_playing = is_playing
       /\ (is_some(ui.playing_playlist_index) /\ is_some(ui.playing_song_index))
              <=> is_some(state)

\* song 1 ran to its end, the caller took the notification and advanced; the
\* engine now plays song 2 and both sides agree
C36_Witness ==
    /\ action_rx = <<>>
    /\ song_ended = 1
    /\ ui.received = 1
    /\ ui.is_playing /\ is_playing
    /\ ui.playing_song_index = Some(2)
    /\ is_some(state) /\ unwrap(state).path = 2
    /\ nPlays = 2
    /\ pc = "write"

\* C37: every Play the caller sends names a song whose exists flag is set;
\* playing a song that does not exist sends nothing and changes nothing; next
\* and prev go to the nearest existing song after, respectively before, the
\* current one and send Stop when there is none; resume, next and prev send
\* nothing without a current song
C37_NeverPlaysMissingSong ==
    /\ [][ /\ Len(action_rx') = Len(action_rx) + 1
           /\ action_rx'[Len(action_rx')].type = "Play"
           => /\ action_rx'[Len(action_rx')].arg \in 1..Len(ui.songs)
              /\ ui.songs[action_rx'[Len(action_rx')].arg] ]_vars
    /\ [][ev'.kind = "playSong" /\ ~ui.songs[ev'.arg] =>
             action_rx' = action_rx /\ ui' = ui]_vars
    /\ [][ /\ ev'.kind \in {"nextSong", "prevSong"}
           /\ is_some(ui.playing_playlist_index)
           /\ is_some(ui.playing_song_index)
           => LET cur == unwrap(ui.playing_song_index)
                  cand == IF ev'.kind = "nextSong"
                            THEN {i \in (cur + 1)..Len(ui.songs) : ui.songs[i]}
                            ELSE {i \in 1..(cur - 1) : ui.songs[i]}
              IN  IF cand = {}
                    THEN action_rx' = Append(action_rx, Stop)
                    ELSE \E n \in cand :
                           /\ \A j \in cand : IF ev'.kind = "nextSong" THEN n <= j ELSE n >= j
                           /\ action_rx' = Append(action_rx, Play(n))
                           /\ ui'.playing_song_index = Some(n) ]_vars
    /\ [][ \/ /\ ev'.kind \in {"nextSong", "prevSong"}
              /\ is_none(ui.playing_playlist_index) \/ is_none(ui.playing_song_index)
           \/ /\ ev'.kind = "toggle"
              /\ ~ui.is_playing
              /\ is_none(ui.playing_song_index)
           => action_rx' = action_rx /\ ui' = ui ]_vars

\* prev from song 3 with song 2 missing: Play of song 1 is sent and recorded
C37_Witness ==
    /\ ev.kind = "prevSong"
    /\ ui.songs = <<TRUE, FALSE, TRUE>>
    /\ ui.playing_song_index = Some(1)
    /\ action_rx # <<>>
    /\ action_rx[Len(action_rx)] = Play(1)
    /\ sent = 2

\* C38: whenever the caller has a current song, playing_song_index is an
\* index of the playlist at playing_playlist_index, and a step that adds,
\* deletes or moves songs and leaves a current song leaves it denoting the
\* same song
C38_PlayingIndexValid ==
    /\ [](~dropped /\ HasCurrent(ui) => ValidCurrent(ui))
    /\ [][ /\ ev'.kind \in {"addSong", "delete", "moveDown", "moveUp"}
           /\ HasCurrent(ui) /\ ValidCurrent(ui)
           /\ HasCurrent(ui')
           => /\ ValidCurrent(ui')
              /\ ui'.playlists[unwrap(ui'.playing_playlist_index)]
                              [unwrap(ui'.playing_song_index)]
                 = ui.playlists[unwrap(ui.playing_playlist_index)]
                               [unwrap(ui.playing_song_index)] ]_vars

\* C39: download_state moves only None -> Downloading -> Postprocessing ->
\* None, or Downloading -> None when the download failed.  A call of download
\* in any state but None changes nothing, a child is spawned only when no
\* tracked child is running, and a child is tracked exactly when the state is
\* not None.  Every step that leaves Downloading or Postprocessing on the
\* exit of the child has sent the kill signal to both listeners of that
\* child.  A song is added only by the update that sees postprocessing exit
\* successfully, that update adds exactly one song, and so no more songs are
\* added than downloads were started.  (Steps in which an unwrap panics end
\* the program and change none of these.)
C39_DownloadStateMachine ==
    /\ [](/\ (ui.download_state = "None") <=> (ui.child = "none")
          /\ ui.added - 2 + (IF ui.download_state = "None" THEN 0 ELSE 1)
                <= ui.downloads)
    /\ [][LET a == ui.download_state
              b == ui'.download_state
          IN  /\ a # b => <<a, b>> \in {<<"None", "Downloading">>,
                                        <<"Downloading", "Postprocessing">>,
                                        <<"Postprocessing", "None">>,
                                        <<"Downloading", "None">>}
              /\ a = "Downloading" /\ b = "None" => ui.child = "failed"
              /\ a = "Downloading" /\ b = "Postprocessing" => ui.child = "ok"
              /\ ev'.kind = "download" /\ a # "None" => ui' = ui
              /\ a # b /\ b # "None" => ui.child # "running" /\ ui'.child = "running"
              /\ a # b /\ a # "None" =>
                    /\ ui.listeners = NewListeners
                    /\ ui'.kills = ui.kills + 2
              /\ ui'.kills # ui.kills /\ ~dropped' => a # b /\ a # "None"
              /\ ui'.added # ui.added =>
                    /\ ui'.added = ui.added + 1
                    /\ a = "Postprocessing" /\ ui.child = "ok" /\ b = "None"
              /\ a = "Postprocessing" /\ ui.child = "ok" /\ ev'.kind = "update" =>
                    ui'.added = ui.added + 1]_vars

\* a download that went through Downloading and Postprocessing back to None:
\* four kill signals sent, one song added
C39_Witness ==
    /\ ~dropped
    /\ ui.download_state = "None"
    /\ ui.downloads = 1
    /\ ui.kills = 4
    /\ ui.added = 3
    /\ ev.kind = "update"
====
